---- MODULE Spec2Model ----
(***************************************************************************)
(* The SSH/SFTP remote-session gateways of the repository:                 *)
(*   "terminus"  the interactive-shell gateway   (src/main.js 239-317)     *)
(*   "sftp"      the SFTP gateway                (src/main/ws-sftp.js)     *)
(*   "autosync"  the SFTP gateway with tracked   (src/unnamed/part_014)    *)
(*               local copies                                              *)
(* Every action is one callback run to completion by the event loop.       *)
(***************************************************************************)
EXTENDS Integers, Sequences, FiniteSets, Bags, TLC

\* ---------------------------------------------------------------- bounds
NumChannels == 1        \* client channels the gateway accepts
MaxConns    == 2        \* `new Client()` executions in one run
MaxMsgs     == 3        \* client messages received in one run
MaxChanges  == 2        \* file-change events delivered in one run
MaxChunks   == 2        \* chunks the shell streams emit in one run

Channels == 1..NumChannels
Conns    == 1..MaxConns
Ids      == 1..NumChannels          \* values Math.random() can draw

Variants == {"terminus", "sftp", "autosync"}

\* the `data.type` values the gateways dispatch on
SftpOps     == {"list", "get_content", "upload", "download", "move",
                "create_folder", "create_file", "delete", "rename"}
AutosyncOps == {"list", "download_and_track", "upload", "create_folder",
                "create_file", "delete_item", "rename_item"}
\* the requests the model's clients issue: one request of each shape of handler
\* (callback, stream, transfer that is tracked afterwards)
MsgTypes    == {"connect", "disconnect", "list", "upload", "download_and_track"}

\* the payloads of `data` messages, of `resize` messages ({rows, cols}) and of
\* the other messages (whose payload the model does not look into)
Inputs    == {"a\n", "b\n"}
Sizes     == {[rows |-> 24, cols |-> 80], [rows |-> 40, cols |-> 120]}
NoPayload == "-"
NoSize    == [rows |-> 0, cols |-> 0]
Payloads(type) == IF type = "data" THEN Inputs
                  ELSE IF type = "resize" THEN Sizes ELSE {NoPayload}

\* local temporary paths: `${connectionId}-${Date.now()}-${basename}`
LocalPaths == [id : Ids, now : 0..MaxMsgs]

VARIABLES
    variant,          \* which gateway this process runs
    ws,               \* [Channels -> {"none","open","closed"}]  client channel state
    connectionId,     \* [Channels -> Ids \cup {0}]  id drawn when the channel opened
    sftpConnections,  \* [Ids -> entry]  the registry (sshConnections in Terminus)
    conns,            \* [Conns -> record]  every ssh2 Client ever constructed
    nConns,           \* number of Clients constructed
    nMsgs,            \* number of client messages received
    pending,          \* SFTP calls in flight (request sent, callback not yet run)
    sent,             \* [Channels -> Bag(message)]  messages delivered to the client
    teardown,         \* [Conns -> Seq(step)]  teardown steps in program order
    crashed,          \* an uncaught exception ended the process
    clock,            \* Date.now()
    sftpTrackedFiles, \* [LocalPaths -> trackInfo]  the tracked local copies
    watchers,         \* open fs.watch handles
    timers,           \* pending setTimeout handles
    nTimers,          \* number of timers ever created
    files,            \* local temporary files on disk
    shellIn,          \* [Conns -> Seq(text)]  what was written to each shell stream
    pty,              \* [Conns -> size]  window of each remote pseudo-terminal
    nChunks,          \* number of chunks the shell streams have emitted
    forwarded,        \* [Channels -> Seq(chunk number)]  `data` events delivered, in order
    status,           \* the client app's connection status
    closureStatus,    \* the status its socket handlers were created with
    readyState,       \* readyState of the client app's WebSocket
    outlog,           \* Seq(type)  messages the client app has sent, in order
    seen,             \* Bag(message)  messages the client app has handled
    remoteItems,      \* Seq(item)  the remote entries the client app presents
    nHandled,         \* number of SFTP responses the client app has handled
    dialed,           \* [Conns -> record]  the port of each connect payload and the port used
    remoteFs,         \* the files and folders on the SFTP server
    calls,            \* SFTP calls issued, with their arguments and whether they are done
    replies           \* Seq(message)  responses to those calls, with their payloads

gw    == <<variant, ws, connectionId, sftpConnections, conns, nConns, nMsgs,
           pending, sent, teardown, crashed>>
sync  == <<clock, sftpTrackedFiles, watchers, timers, nTimers, files>>
shell == <<shellIn, pty, nChunks, forwarded>>
app   == <<status, closureStatus, readyState, outlog, seen, remoteItems, nHandled>>
detail == <<dialed, remoteFs, calls, replies>>
vars  == <<gw, sync, shell, app, detail>>

\* ---------------------------------------------------------------- values
NoEntry == [ws |-> 0, ssh |-> 0, sftp |-> 0]      \* Map.get(...) === undefined
NoConn  == [st |-> "unused", ws |-> 0, ended |-> FALSE, errored |-> FALSE, sub |-> "none"]

NoTrack == [connectionId |-> 0, watcher |-> 0, debounceTimeout |-> 0]
NoPath  == [id |-> 0, now |-> 0]

\* JavaScript values of the `port` member of a connect payload: undefined, a number,
\* or a string (the sequence of its characters)
Undefined   == [kind |-> "undefined"]
Number(n)   == [kind |-> "number", value |-> n]
String(cs)  == [kind |-> "string", chars |-> cs]
NaN         == -1                                 \* the result of a parseInt that fails
DefaultPort == 22                                 \* ws-sftp.js:52, main.js:281
NoDial      == [given |-> Undefined, used |-> 0]  \* conn.connect(...) not called

\* texts are sequences of tokens; a path is the sequence of its segments and slashes
Slash == "/"
Home  == <<"home", "u">>                          \* the directory relative paths start in

\* a node of the server's file system: absolute segments, "d" or "-", content (bytes)
Dir(segs)         == [path |-> segs, kind |-> "d", content |-> <<>>]
File(segs, bytes) == [path |-> segs, kind |-> "-", content |-> bytes]
ServerFiles == {Dir(<<>>), Dir(<<"home">>), Dir(Home), Dir(Home \o <<"sub">>),
                Dir(Home \o <<"Zed">>), File(Home \o <<"B.txt">>, <<>>),
                File(Home \o <<"a.txt">>, <<104, 195, 169>>)}

Msg(type, payload, ref) == [type |-> type, payload |-> payload, ref |-> ref]

\* ws.send(...): on a channel that is no longer open the `ws` library drops the frame
WsSend(s, c, m) == IF ws[c] = "open" THEN [s EXCEPT ![c] = @ (+) SetToBag({m})] ELSE s

\* Map.delete(connectionId)
MapDelete(reg, id) == [reg EXCEPT ![id] = NoEntry]

\* the teardown log: `step` appended to the log of connection k (k = 0: nothing bound)
LogStep(log, k, step) == IF k = 0 THEN log ELSE [log EXCEPT ![k] = Append(@, step)]

\* conn.end(): the socket is half-closed, the close event follows later
SshEnd(cs, k) == IF k = 0 \/ cs[k].st = "closed" THEN cs ELSE [cs EXCEPT ![k].ended = TRUE]

\* the teardown log entry of the first conn.end() on connection k
LogEnd(log, cs, k) ==
    IF k = 0 \/ cs[k].st = "closed" \/ cs[k].ended THEN log ELSE LogStep(log, k, "end")

\* the state after construction, for the given channels and the given ids they may draw
InitOn(channels, ids) ==
    /\ variant \in Variants
    /\ ws = [c \in channels |-> "none"]
    /\ connectionId = [c \in channels |-> 0]
    /\ sftpConnections = [i \in ids |-> NoEntry]
    /\ conns = [k \in Conns |-> NoConn]
    /\ nConns = 0
    /\ nMsgs = 0
    /\ pending = {}
    /\ sent = [c \in channels |-> EmptyBag]
    /\ teardown = [k \in Conns |-> <<>>]
    /\ crashed = FALSE
    /\ clock = 0
    /\ sftpTrackedFiles = [p \in LocalPaths |-> NoTrack]
    /\ watchers = {}
    /\ timers = {}
    /\ nTimers = 0
    /\ files = {}
    /\ shellIn = [k \in Conns |-> <<>>]
    /\ pty = [k \in Conns |-> NoSize]
    /\ nChunks = 0
    /\ forwarded = [c \in channels |-> <<>>]
    /\ status = "disconnected"
    /\ closureStatus = "disconnected"
    /\ readyState = "none"
    /\ outlog = <<>>
    /\ seen = EmptyBag
    /\ remoteItems = <<>>
    /\ nHandled = 0
    /\ dialed = [k \in Conns |-> NoDial]
    /\ remoteFs = ServerFiles
    /\ calls = {}
    /\ replies = <<>>

Init == InitOn(Channels, Ids)

\* wss.on('connection'): a channel opens and draws its connectionId
WsConnection(c, id) ==
    /\ ~crashed
    /\ ws[c] = "none"
    /\ ws' = [ws EXCEPT ![c] = "open"]
    /\ connectionId' = [connectionId EXCEPT ![c] = id]
    /\ UNCHANGED <<shell, app, detail, variant, sftpConnections, conns, nConns, nMsgs, pending, sent,
                   teardown, crashed, sync>>

\* the `connect` branch: new Client(), registry.set, handlers, conn.connect(...)
Connect(c) ==
    LET id == connectionId[c]
        k  == nConns + 1
    IN  /\ nConns < MaxConns
        /\ nConns' = k
        /\ conns' = [conns EXCEPT ![k] = [NoConn EXCEPT !.st = "connecting", !.ws = c]]
        /\ sftpConnections' = [sftpConnections EXCEPT ![id] = [ws |-> c, ssh |-> k, sftp |-> 0]]
        /\ UNCHANGED <<pending, sent, teardown, clock, shell>>

\* the `disconnect` branch
Disconnect(c) ==
    LET e == sftpConnections[connectionId[c]]
    IN  /\ conns' = SshEnd(conns, e.ssh)
        /\ teardown' = LogEnd(teardown, conns, e.ssh)
        /\ UNCHANGED <<nConns, sftpConnections, pending, sent, clock, shell>>

\* a dispatcher that serves the requests of a channel one at a time: a request
\* that arrives while another one is in flight is not handed to the subsystem
SftpRequestOneAtATime(c, type) ==
    LET id == connectionId[c]
        e  == sftpConnections[id]
    IN  /\ \E now \in {clock, clock + 1} :
              /\ clock' = IF type = "download_and_track" THEN now ELSE clock
              /\ pending' = IF \E q \in pending : q.ws = c THEN pending ELSE pending \cup
                    {[req |-> nMsgs + 1, ws |-> c, op |-> type, sftp |-> e.sftp, tid |-> 0,
                      localPath |-> IF type = "download_and_track"
                                       THEN [id |-> id, now |-> now] ELSE NoPath]}
        /\ UNCHANGED <<nConns, conns, sftpConnections, sent, teardown, shell>>

\* an SFTP request branch (`data.type === ... && sftp`): the call is issued on the
\* handle of the registry entry and its callback runs later
SftpRequest(c, type) ==
    LET id == connectionId[c]
        e  == sftpConnections[id]
    IN  /\ \E now \in {clock, clock + 1} :
              /\ clock' = IF type = "download_and_track" THEN now ELSE clock
              /\ pending' = pending \cup
                    {[req |-> nMsgs + 1, ws |-> c, op |-> type, sftp |-> e.sftp, tid |-> 0,
                      localPath |-> IF type = "download_and_track"
                                       THEN [id |-> id, now |-> now] ELSE NoPath]}
        /\ UNCHANGED <<nConns, conns, sftpConnections, sent, teardown, shell>>

\* no branch of the if/else-if chain matches: the handler returns
Ignored == UNCHANGED <<nConns, conns, sftpConnections, pending, sent, teardown, clock,
                      shell>>

\* the operations of the gateway's dispatch chain
Operations == IF variant = "sftp" THEN SftpOps
              ELSE IF variant = "autosync" THEN AutosyncOps ELSE {}

\* the shell stream of a registry entry accepts input: it was opened and has not closed
Writable(e) == e.sftp # 0 /\ conns[e.sftp].sub = "open"

\* a `data` branch that puts the payload in front of what was written before
ShellWriteInFront(c, payload) ==
    LET e == sftpConnections[connectionId[c]]
    IN  /\ shellIn' = IF Writable(e) THEN [shellIn EXCEPT ![e.sftp] = <<payload>> \o @]
                      ELSE shellIn
        /\ UNCHANGED <<nConns, conns, sftpConnections, pending, sent, teardown, clock,
                       pty, nChunks, forwarded>>

\* the Terminus `data` branch: connection.stream.write(data.payload)
ShellWrite(c, payload) ==
    LET e == sftpConnections[connectionId[c]]
    IN  /\ shellIn' = IF Writable(e) THEN [shellIn EXCEPT ![e.sftp] = Append(@, payload)]
                      ELSE shellIn
        /\ UNCHANGED <<nConns, conns, sftpConnections, pending, sent, teardown, clock,
                       pty, nChunks, forwarded>>

\* a `resize` branch that sets the window whether or not the stream is open
ResizeAlways(c, payload) ==
    LET e == sftpConnections[connectionId[c]]
    IN  /\ pty' = IF e.sftp # 0 THEN [pty EXCEPT ![e.sftp] = payload] ELSE pty
        /\ UNCHANGED <<nConns, conns, sftpConnections, pending, sent, teardown, clock,
                       shellIn, nChunks, forwarded>>

\* the Terminus `resize` branch: connection.stream.setWindow(rows, cols)
Resize(c, payload) ==
    LET e == sftpConnections[connectionId[c]]
    IN  /\ pty' = IF Writable(e) THEN [pty EXCEPT ![e.sftp] = payload] ELSE pty
        /\ UNCHANGED <<nConns, conns, sftpConnections, pending, sent, teardown, clock,
                       shellIn, nChunks, forwarded>>

\* JSON.parse or the destructuring of a missing payload throws before any effect:
\* the catch block logs, and in ws-sftp.js answers with a generic error
Malformed(c) ==
    /\ sent' = IF variant = "sftp"
                  THEN WsSend(sent, c, Msg("error", "Invalid message format received.",
                                           nMsgs + 1))
                  ELSE sent
    /\ UNCHANGED <<nConns, conns, sftpConnections, pending, teardown, clock, shell>>

\* a `connect` whose payload has no username: new Client() and registry.set(...)
\* are executed, then conn.connect(...) throws 'Invalid username' into the catch block
ConnectInvalid(c) ==
    LET id == connectionId[c]
        k  == nConns + 1
    IN  /\ nConns < MaxConns
        /\ nConns' = k
        /\ conns' = [conns EXCEPT ![k] = [NoConn EXCEPT !.st = "invalid", !.ws = c]]
        /\ sftpConnections' = [sftpConnections EXCEPT ![id] = [ws |-> c, ssh |-> k, sftp |-> 0]]
        /\ sent' = IF variant = "sftp"
                      THEN WsSend(sent, c, Msg("error", "Invalid message format received.",
                                               nMsgs + 1))
                      ELSE sent
        /\ UNCHANGED <<pending, teardown, clock, shell>>

\* ws.on('message') for a message of the given type and payload
Receive(c, type, payload) ==
    LET e == sftpConnections[connectionId[c]]
    IN  /\ ~crashed
        /\ ws[c] = "open"
        /\ nMsgs < MaxMsgs
        /\ nMsgs' = nMsgs + 1
        /\ IF type = "malformed" THEN Malformed(c)
           ELSE IF type = "connect_invalid" THEN ConnectInvalid(c)
           ELSE IF type = "connect" THEN Connect(c)
           ELSE IF variant = "terminus" /\ type = "data" THEN ShellWrite(c, payload)
           ELSE IF variant = "terminus" /\ type = "resize" THEN Resize(c, payload)
           ELSE IF type \in Operations /\ e.sftp # 0 THEN SftpRequest(c, type)
           ELSE IF type = "disconnect" THEN Disconnect(c)
           ELSE Ignored
        /\ UNCHANGED <<app, detail, variant, ws, connectionId, crashed, sftpTrackedFiles, watchers,
                       timers, nTimers, files>>

\* ws.on('message')
Message(c, type) == \E payload \in Payloads(type) : Receive(c, type, payload)

\* a `ready` handler that tells the client at once, whichever the gateway
ConnReadyNotifies(k) ==
    LET c == conns[k].ws
    IN  /\ ~crashed
        /\ conns[k].st = "connecting"
        /\ ~conns[k].ended /\ ~conns[k].errored
        /\ conns' = [conns EXCEPT ![k].st = "ready", ![k].sub = "opening"]
        /\ sent' = WsSend(sent, c, Msg("status", "connected", k))
        /\ UNCHANGED <<shell, app, detail, variant, ws, connectionId, sftpConnections, nConns, nMsgs,
                       pending, teardown, crashed, sync>>

\* conn.on('ready')
ConnReady(k) ==
    LET c == conns[k].ws
    IN  /\ ~crashed
        /\ conns[k].st = "connecting"
        /\ ~conns[k].ended /\ ~conns[k].errored
        /\ conns' = [conns EXCEPT ![k].st = "ready", ![k].sub = "opening"]
        /\ sent' = IF variant = "terminus"
                      THEN WsSend(sent, c, Msg("status", "connected", k))
                      ELSE sent
        /\ UNCHANGED <<shell, app, detail, variant, ws, connectionId, sftpConnections, nConns, nMsgs,
                       pending, teardown, crashed, sync>>

\* a callback that stores the SFTP handle without telling the client
SubsystemOpenedSilent(k, ok) ==
    LET c  == conns[k].ws
        id == connectionId[c]
    IN  /\ ~crashed
        /\ conns[k].sub = "opening"
        /\ ok => (conns[k].st = "ready" /\ ~conns[k].errored)
        /\ IF ~ok
              THEN /\ sent' = WsSend(sent, c, Msg("error",
                                 IF variant = "terminus" THEN "shell" ELSE "SFTP Error", k))
                   /\ conns' = [conns EXCEPT ![k].sub = "failed"]
                   /\ UNCHANGED <<sftpConnections, crashed>>
           ELSE IF sftpConnections[id].ssh = 0
              THEN /\ crashed' = TRUE
                   /\ UNCHANGED <<sent, conns, sftpConnections>>
           ELSE    /\ sftpConnections' = [sftpConnections EXCEPT ![id].sftp = k]
                   /\ conns' = [conns EXCEPT ![k].sub = "open"]
                   /\ UNCHANGED <<sent, crashed>>
        /\ UNCHANGED <<shell, app, detail, variant, ws, connectionId, nConns, nMsgs, pending, teardown, sync>>

\* the callback of conn.sftp(...) / conn.shell(...)
SubsystemOpened(k, ok) ==
    LET c  == conns[k].ws
        id == connectionId[c]
    IN  /\ ~crashed
        /\ conns[k].sub = "opening"
        /\ ok => (conns[k].st = "ready" /\ ~conns[k].errored)
        /\ IF ~ok
              THEN /\ sent' = WsSend(sent, c, Msg("error",
                                 IF variant = "terminus" THEN "shell" ELSE "SFTP Error", k))
                   /\ conns' = [conns EXCEPT ![k].sub = "failed"]
                   /\ UNCHANGED <<sftpConnections, crashed>>
           ELSE IF sftpConnections[id].ssh = 0
              THEN \* registry.get(connectionId) is undefined: TypeError in a callback
                   /\ crashed' = TRUE
                   /\ UNCHANGED <<sent, conns, sftpConnections>>
           ELSE    /\ sftpConnections' = [sftpConnections EXCEPT ![id].sftp = k]
                   /\ conns' = [conns EXCEPT ![k].sub = "open"]
                   /\ sent' = IF variant = "terminus" THEN sent
                              ELSE WsSend(sent, c, Msg("status", "connected", k))
                   /\ UNCHANGED crashed
        /\ UNCHANGED <<shell, app, detail, variant, ws, connectionId, nConns, nMsgs, pending, teardown, sync>>

\* ConnError with the registry.delete(connectionId) left out
ConnErrorKeepsEntry(k) ==
    LET c  == conns[k].ws
    IN  /\ ~crashed
        /\ conns[k].st \in {"connecting", "ready"}
        /\ ~conns[k].errored
        /\ conns' = [conns EXCEPT ![k].errored = TRUE]
        /\ sent' = WsSend(sent, c, Msg("error", "Connection Error", k))
        /\ UNCHANGED <<shell, app, detail, variant, ws, connectionId, sftpConnections, nConns, nMsgs, pending,
                       teardown, crashed, sync>>

\* conn.on('error')
ConnError(k) ==
    LET c  == conns[k].ws
        id == connectionId[c]
    IN  /\ ~crashed
        /\ conns[k].st \in {"connecting", "ready"}
        /\ ~conns[k].errored
        /\ conns' = [conns EXCEPT ![k].errored = TRUE]
        /\ sent' = WsSend(sent, c, Msg("error", "Connection Error", k))
        /\ sftpConnections' = MapDelete(sftpConnections, id)
        /\ teardown' = LogStep(teardown, sftpConnections[id].ssh, "delete")
        /\ UNCHANGED <<shell, app, detail, variant, ws, connectionId, nConns, nMsgs, pending, crashed, sync>>

\* ConnClose with the registry.delete(connectionId) left out
ConnCloseKeepsEntry(k) ==
    LET c  == conns[k].ws
    IN  /\ ~crashed
        /\ conns[k].st \in {"connecting", "ready"}
        /\ conns' = [conns EXCEPT ![k].st = "closed"]
        /\ sent' = WsSend(sent, c, Msg("status", "disconnected", k))
        /\ teardown' = LogStep(LogStep(teardown, k, "close"), k, "notify")
        /\ UNCHANGED <<shell, app, detail, variant, ws, connectionId, sftpConnections, nConns, nMsgs, pending,
                       crashed, sync>>

\* conn.on('close')
ConnClose(k) ==
    LET c  == conns[k].ws
        id == connectionId[c]
    IN  /\ ~crashed
        /\ conns[k].st \in {"connecting", "ready"}
        /\ conns' = [conns EXCEPT ![k].st = "closed"]
        /\ sent' = WsSend(sent, c, Msg("status", "disconnected", k))
        /\ sftpConnections' = MapDelete(sftpConnections, id)
        /\ teardown' = LogStep(LogStep(LogStep(teardown, k, "close"), k, "notify"),
                               sftpConnections[id].ssh, "delete")
        /\ UNCHANGED <<shell, app, detail, variant, ws, connectionId, nConns, nMsgs, pending, crashed, sync>>

\* stream.on('close') of the interactive shell: conn.end()
StreamClose(k) ==
    /\ ~crashed
    /\ variant = "terminus"
    /\ conns[k].sub = "open"
    /\ conns' = [SshEnd(conns, k) EXCEPT ![k].sub = "closed"]
    /\ teardown' = LogEnd(LogStep(teardown, k, "stream"), conns, k)
    /\ UNCHANGED <<shell, app, detail, variant, ws, connectionId, sftpConnections, nConns, nMsgs, pending,
                   sent, crashed, sync>>

\* data handlers that hold a chunk back until the next one arrives
StreamDataBuffered(k, src) ==
    LET c == conns[k].ws
        n == nChunks + 1
    IN  /\ ~crashed
        /\ variant = "terminus"
        /\ conns[k].sub = "open"
        /\ nChunks < MaxChunks
        /\ nChunks' = n
        /\ sent' = IF n % 2 = 0 THEN WsSend(sent, c, Msg("data", n, 0)) ELSE sent
        /\ forwarded' = IF ws[c] = "open" /\ n % 2 = 0
                           THEN [forwarded EXCEPT ![c] = Append(@, n)]
                        ELSE forwarded
        /\ UNCHANGED <<shellIn, pty, app, detail, variant, ws, connectionId, sftpConnections, conns,
                       nConns, nMsgs, pending, teardown, crashed, sync>>

\* stream.on('data') and stream.stderr.on('data'): one `data` message per chunk,
\* sent from inside the event handler; the n-th chunk emitted stands for its text,
\* and the message does not say which of the two streams it came from
StreamData(k, src) ==
    LET c == conns[k].ws
        n == nChunks + 1
    IN  /\ ~crashed
        /\ variant = "terminus"
        /\ conns[k].sub = "open"
        /\ nChunks < MaxChunks
        /\ nChunks' = n
        /\ sent' = WsSend(sent, c, Msg("data", n, 0))
        /\ forwarded' = IF ws[c] = "open" THEN [forwarded EXCEPT ![c] = Append(@, n)]
                        ELSE forwarded
        /\ UNCHANGED <<shellIn, pty, app, detail, variant, ws, connectionId, sftpConnections, conns,
                       nConns, nMsgs, pending, teardown, crashed, sync>>

\* the type of the message that answers a successful request
ResponseType(op) ==
    IF op = "list" THEN "list"
    ELSE IF op = "get_content" THEN "file_content"
    ELSE IF op = "download_and_track" THEN "download_complete"
    ELSE "operation_success"

\* an SFTP call completes: its callback runs once, and a call on a connection
\* that is gone can only fail
CallDone(p, ok) ==
    /\ ~crashed
    /\ p \in pending
    /\ ok => (conns[p.sftp].st = "ready" /\ ~conns[p.sftp].errored)
    /\ pending' = pending \ {p}
    /\ UNCHANGED <<shell, app, detail, variant, ws, connectionId, nConns, nMsgs, teardown, crashed, clock,
                   timers, nTimers>>

\* RequestDone treating a failed call as fatal for the session: the failure
\* branch also purges the registry entry
RequestDoneFatal(p, ok) ==
    /\ CallDone(p, ok)
    /\ p.tid = 0
    /\ UNCHANGED conns
    /\ IF ~ok
          THEN /\ sent' = WsSend(sent, p.ws, Msg("error", p.op, p.req))
               /\ sftpConnections' = MapDelete(sftpConnections, connectionId[p.ws])
               /\ UNCHANGED <<sftpTrackedFiles, watchers, files>>
       ELSE    /\ sent' = WsSend(sent, p.ws, Msg(ResponseType(p.op), p.op, p.req))
               /\ UNCHANGED <<sftpConnections, sftpTrackedFiles, watchers, files>>

\* the callback of an SFTP call requested by the client
RequestDone(p, ok) ==
    /\ CallDone(p, ok)
    /\ p.tid = 0
    /\ UNCHANGED <<sftpConnections, conns>>
    /\ IF ~ok
          THEN /\ sent' = WsSend(sent, p.ws, Msg("error", p.op, p.req))
               /\ UNCHANGED <<sftpTrackedFiles, watchers, files>>
       ELSE    /\ sent' = WsSend(sent, p.ws, Msg(ResponseType(p.op), p.op, p.req))
               /\ IF p.op = "download_and_track"
                     THEN \* fs.watch(localPath, ...) and sftpTrackedFiles.set(localPath, ...)
                          /\ files' = files \cup {p.localPath}
                          /\ watchers' = watchers \cup
                                {[req |-> p.req, ws |-> p.ws, sftp |-> p.sftp,
                                  localPath |-> p.localPath]}
                          /\ sftpTrackedFiles' = [sftpTrackedFiles EXCEPT ![p.localPath] =
                                [connectionId |-> p.localPath.id, watcher |-> p.req,
                                 debounceTimeout |-> 0]]
                     ELSE UNCHANGED <<sftpTrackedFiles, watchers, files>>

\* the callback of the sftp.fastPut(...) started by a debounce timer
FastPutDone(p, ok) ==
    /\ CallDone(p, ok)
    /\ p.tid # 0
    /\ sent' = WsSend(sent, p.ws, Msg("upload_status",
                                      IF ok THEN "complete" ELSE "error", p.req))
    /\ UNCHANGED <<sftpConnections, conns, sftpTrackedFiles, watchers, files>>

\* the fs.watch listener, eventType === 'change'
FileChange(w) ==
    LET trackInfo == sftpTrackedFiles[w.localPath]
        tid       == nTimers + 1
    IN  /\ ~crashed
        /\ w \in watchers
        /\ w.localPath \in files
        /\ nTimers < MaxChanges
        /\ IF trackInfo = NoTrack
              THEN UNCHANGED <<sftpTrackedFiles, timers, nTimers>>
              ELSE /\ timers' = {t \in timers : t.tid # trackInfo.debounceTimeout} \cup
                                {[tid |-> tid, req |-> w.req, ws |-> w.ws, sftp |-> w.sftp,
                                  localPath |-> w.localPath]}
                   /\ sftpTrackedFiles' =
                         [sftpTrackedFiles EXCEPT ![w.localPath].debounceTimeout = tid]
                   /\ nTimers' = tid
        /\ UNCHANGED <<gw, clock, watchers, files, shell, app, detail>>

\* a timer callback that starts the upload without announcing it
DebounceFireSilent(t) ==
    /\ ~crashed
    /\ t \in timers
    /\ timers' = timers \ {t}
    /\ sent' = sent
    /\ pending' = pending \cup
          {[req |-> t.req, ws |-> t.ws, op |-> "fastPut", sftp |-> t.sftp, tid |-> t.tid,
            localPath |-> t.localPath]}
    /\ UNCHANGED <<shell, app, detail, variant, ws, connectionId, sftpConnections, conns, nConns, nMsgs,
                   teardown, crashed, clock, sftpTrackedFiles, watchers, nTimers, files>>

\* the setTimeout callback: 500 ms without a further change
DebounceFire(t) ==
    /\ ~crashed
    /\ t \in timers
    /\ timers' = timers \ {t}
    /\ sent' = WsSend(sent, t.ws, Msg("upload_status", "started", t.req))
    /\ pending' = pending \cup
          {[req |-> t.req, ws |-> t.ws, op |-> "fastPut", sftp |-> t.sftp, tid |-> t.tid,
            localPath |-> t.localPath]}
    /\ UNCHANGED <<shell, app, detail, variant, ws, connectionId, sftpConnections, conns, nConns, nMsgs,
                   teardown, crashed, clock, sftpTrackedFiles, watchers, nTimers, files>>

\* the tracked local copies ws.on('close') releases: those of this connectionId
TrackedBy(id) == {p \in LocalPaths : sftpTrackedFiles[p].connectionId = id}

\* ws.on('close')
WsClose(c) ==
    LET id   == connectionId[c]
        e    == sftpConnections[id]
        mine == TrackedBy(id)
    IN  /\ ~crashed
        /\ ws[c] = "open"
        /\ ws' = [ws EXCEPT ![c] = "closed"]
        /\ conns' = SshEnd(conns, e.ssh)
        /\ sftpConnections' = MapDelete(sftpConnections, id)
        /\ teardown' = LogStep(LogEnd(teardown, conns, e.ssh), e.ssh, "delete")
        /\ IF variant = "autosync"
              THEN /\ watchers' = {w \in watchers :
                          ~(w.localPath \in mine
                            /\ w.req = sftpTrackedFiles[w.localPath].watcher)}
                   /\ timers' = {t \in timers :
                          ~(t.localPath \in mine
                            /\ t.tid = sftpTrackedFiles[t.localPath].debounceTimeout)}
                   /\ files' = files \ mine
                   /\ sftpTrackedFiles' =
                         [p \in LocalPaths |-> IF p \in mine THEN NoTrack
                                               ELSE sftpTrackedFiles[p]]
              ELSE UNCHANGED <<watchers, timers, files, sftpTrackedFiles>>
        /\ UNCHANGED <<shell, app, detail, variant, connectionId, nConns, nMsgs, pending, sent, crashed,
                       clock, nTimers>>

\* Math.random() draws: the values no open or closed channel holds
FreshIds == Ids \ {connectionId[c] : c \in Channels}

\* the interactive-shell gateway and the SFTP gateway
CoreVariants == {"terminus", "sftp"}
CoreTypes    == MsgTypes \ {"download_and_track"}

CoreInit == Init /\ variant \in CoreVariants

Next ==
    \/ \E c \in Channels, id \in FreshIds : WsConnection(c, id)
    \/ \E c \in Channels, type \in CoreTypes : Message(c, type)
    \/ \E k \in Conns : ConnReady(k)
    \/ \E k \in Conns, ok \in BOOLEAN : SubsystemOpened(k, ok)
    \/ \E k \in Conns : ConnError(k)
    \/ \E k \in Conns : ConnClose(k)
    \/ \E k \in Conns : StreamClose(k)
    \/ \E p \in pending, ok \in BOOLEAN : RequestDone(p, ok)
    \/ \E c \in Channels : WsClose(c)

Spec == CoreInit /\ [][Next]_vars

\* the close event ssh2 emits after conn.end() or after an error
CloseAfterEnd(k) == (conns[k].ended \/ conns[k].errored) /\ ConnClose(k)

FairSpec == Spec /\ \A k \in Conns : WF_vars(CloseAfterEnd(k))

\* the outcome of the handshake: ready, or an error, or the close of the connection,
\* at the latest when readyTimeout (20 s) has run out
Handshake(k) ==
    conns[k].st = "connecting" /\ (ConnReady(k) \/ ConnError(k) \/ ConnClose(k))

\* ssh2 calls the callback of conn.sftp(...) / conn.shell(...)
SubsystemCallback(k) == \E ok \in BOOLEAN : SubsystemOpened(k, ok)

\* the two gateways establishing and ending connections, with no other request
ResolveNext ==
    \/ \E c \in Channels, id \in FreshIds : WsConnection(c, id)
    \/ \E c \in Channels, type \in {"connect", "disconnect"} : Message(c, type)
    \/ \E k \in Conns : ConnReady(k)
    \/ \E k \in Conns, ok \in BOOLEAN : SubsystemOpened(k, ok)
    \/ \E k \in Conns : ConnError(k)
    \/ \E k \in Conns : ConnClose(k)
    \/ \E c \in Channels : WsClose(c)

ResolveSpec ==
    /\ CoreInit /\ [][ResolveNext]_vars
    /\ \A k \in Conns : WF_vars(Handshake(k) \/ SubsystemCallback(k))

\* the SFTP gateway with tracked local copies
SyncInit == Init /\ variant = "autosync"

SyncNext ==
    \/ \E c \in Channels, id \in FreshIds : WsConnection(c, id)
    \/ \E c \in Channels, type \in MsgTypes : Message(c, type)
    \/ \E k \in Conns : ConnReady(k)
    \/ \E k \in Conns, ok \in BOOLEAN : SubsystemOpened(k, ok)
    \/ \E k \in Conns : ConnError(k)
    \/ \E k \in Conns : ConnClose(k)
    \/ \E p \in pending, ok \in BOOLEAN : RequestDone(p, ok)
    \/ \E p \in pending, ok \in BOOLEAN : FastPutDone(p, ok)
    \/ \E w \in watchers : FileChange(w)
    \/ \E t \in timers : DebounceFire(t)
    \/ \E c \in Channels : WsClose(c)

SyncSpec == SyncInit /\ [][SyncNext]_vars

\* ---------------------------------------------------------- the SFTP client app
\* the channel of the app's one WebSocket (ws.current)
AppChannel == 1

\* handleConnect: setStatus('connecting'), new WebSocket(...), handlers created
\* with the status of the current render
HandleConnect ==
    /\ readyState = "none"
    /\ status' = "connecting"
    /\ closureStatus' = status
    /\ readyState' = "connecting"
    /\ UNCHANGED <<gw, sync, shell, detail, outlog, seen, remoteItems, nHandled>>

\* the gateway accepts the socket the app has created
Accept(id) == readyState = "connecting" /\ WsConnection(AppChannel, id)

\* ws.onopen: the app sends `connect`
OnOpen ==
    /\ readyState = "connecting"
    /\ ws[AppChannel] = "open"
    /\ readyState' = "open"
    /\ outlog' = Append(outlog, "connect")
    /\ UNCHANGED <<gw, sync, shell, detail, status, closureStatus, seen, remoteItems, nHandled>>

\* fetchRemoteFiles: send `list` when the socket is open
FetchRemoteFiles(log) == IF readyState = "open" THEN Append(log, "list") ELSE log

\* the gateway receives the next message the app has sent
Deliver ==
    /\ nMsgs < Len(outlog)
    /\ Message(AppChannel, outlog[nMsgs + 1])

\* ws.onmessage: `status`, `list` and `error` (which closes the socket)
OnMessage(m) ==
    /\ readyState \in {"open", "closing"}
    /\ (m.type = "status" /\ m.payload = "connected") => Len(outlog) < MaxMsgs
    /\ BagIn(m, sent[AppChannel] (-) seen)
    /\ seen' = seen (+) SetToBag({m})
    /\ status' = IF m.type = "status"
                    THEN (IF m.payload = "connected" THEN "connected" ELSE "disconnected")
                 ELSE IF m.type = "error" THEN "error"
                 ELSE status
    /\ outlog' = IF m.type = "status" /\ m.payload = "connected"
                    THEN FetchRemoteFiles(outlog) ELSE outlog
    /\ readyState' = IF m.type = "error" THEN "closing" ELSE readyState
    /\ UNCHANGED <<gw, sync, shell, detail, closureStatus, remoteItems, nHandled>>

\* the user opens a folder: fetchRemoteFiles(path)
ListDirectory ==
    /\ status = "connected"
    /\ readyState = "open"
    /\ Len(outlog) < MaxMsgs
    /\ outlog' = FetchRemoteFiles(outlog)
    /\ UNCHANGED <<gw, sync, shell, detail, status, closureStatus, readyState, seen, remoteItems, nHandled>>

\* handleDisconnect: send `disconnect`, close the socket
HandleDisconnect ==
    /\ status = "connected"
    /\ readyState = "open"
    /\ Len(outlog) < MaxMsgs
    /\ outlog' = Append(outlog, "disconnect")
    /\ readyState' = "closing"
    /\ UNCHANGED <<gw, sync, shell, detail, status, closureStatus, seen, remoteItems, nHandled>>

\* the gateway sees the close of the socket after everything sent before it
Hangup ==
    /\ readyState = "closing"
    /\ nMsgs = Len(outlog)
    /\ WsClose(AppChannel)

\* ws.onclose: the handler reads the status it was created with
OnClose ==
    /\ readyState = "closing"
    /\ ws[AppChannel] = "closed"
    /\ readyState' = "closed"
    /\ status' = IF closureStatus # "error" THEN "disconnected" ELSE status
    /\ remoteItems' = IF closureStatus # "error" THEN <<>> ELSE remoteItems
    /\ UNCHANGED <<gw, sync, shell, detail, closureStatus, outlog, seen, nHandled>>

AppInit == Init /\ variant = "sftp"

AppNext ==
    \/ HandleConnect
    \/ \E id \in FreshIds : Accept(id)
    \/ OnOpen
    \/ Deliver
    \/ \E k \in Conns : ConnReady(k)
    \/ \E k \in Conns, ok \in BOOLEAN : SubsystemOpened(k, ok)
    \/ \E k \in Conns : ConnError(k)
    \/ \E k \in Conns : ConnClose(k)
    \/ \E p \in pending, ok \in BOOLEAN : RequestDone(p, ok)
    \/ \E m \in BagToSet(sent[AppChannel]) : OnMessage(m)
    \/ ListDirectory
    \/ HandleDisconnect
    \/ Hangup
    \/ OnClose

AppSpec == AppInit /\ [][AppNext]_vars

\* the interactive-shell gateway with keyboard input and window changes
ShellTypes == {"connect", "disconnect", "data", "resize"}
ShellInit  == Init /\ variant = "terminus"

ShellNext ==
    \/ \E c \in Channels, id \in FreshIds : WsConnection(c, id)
    \/ \E c \in Channels, type \in ShellTypes : Message(c, type)
    \/ \E k \in Conns : ConnReady(k)
    \/ \E k \in Conns, ok \in BOOLEAN : SubsystemOpened(k, ok)
    \/ \E k \in Conns : ConnError(k)
    \/ \E k \in Conns : ConnClose(k)
    \/ \E k \in Conns : StreamClose(k)
    \/ \E c \in Channels : WsClose(c)

ShellSpec == ShellInit /\ [][ShellNext]_vars

\* the interactive-shell gateway with the output of the remote shell
OutputNext ==
    \/ \E c \in Channels, id \in FreshIds : WsConnection(c, id)
    \/ \E c \in Channels, type \in {"connect", "disconnect"} : Message(c, type)
    \/ \E k \in Conns : ConnReady(k)
    \/ \E k \in Conns, ok \in BOOLEAN : SubsystemOpened(k, ok)
    \/ \E k \in Conns : ConnError(k)
    \/ \E k \in Conns : ConnClose(k)
    \/ \E k \in Conns : StreamClose(k)
    \/ \E k \in Conns, src \in {"stdout", "stderr"} : StreamData(k, src)
    \/ \E c \in Channels : WsClose(c)

OutputSpec == ShellInit /\ [][OutputNext]_vars

\* the two gateways with messages whose handling throws
ProtoTypes == {"connect", "disconnect", "list", "malformed", "connect_invalid"}

ProtoNext ==
    \/ \E c \in Channels, id \in FreshIds : WsConnection(c, id)
    \/ \E c \in Channels, type \in ProtoTypes : Message(c, type)
    \/ \E k \in Conns : ConnReady(k)
    \/ \E k \in Conns, ok \in BOOLEAN : SubsystemOpened(k, ok)
    \/ \E k \in Conns : ConnError(k)
    \/ \E k \in Conns : ConnClose(k)
    \/ \E k \in Conns : StreamClose(k)
    \/ \E p \in pending, ok \in BOOLEAN : RequestDone(p, ok)
    \/ \E c \in Channels : WsClose(c)

ProtoSpec == CoreInit /\ [][ProtoNext]_vars

\* the SFTP gateway with one channel more, each drawing its id with Math.random()
PairChannels == 1..(NumChannels + 1)
PairIds      == 1..(NumChannels + 1)
PairInit     == InitOn(PairChannels, PairIds) /\ variant = "sftp"

PairNext ==
    \/ \E c \in PairChannels, id \in PairIds : WsConnection(c, id)
    \/ \E c \in PairChannels, type \in {"connect", "list", "disconnect"} : Message(c, type)
    \/ \E k \in Conns : ConnReady(k)
    \/ \E k \in Conns, ok \in BOOLEAN : SubsystemOpened(k, ok)
    \/ \E k \in Conns : ConnError(k)
    \/ \E k \in Conns : ConnClose(k)
    \/ \E p \in pending, ok \in BOOLEAN : RequestDone(p, ok)
    \/ \E c \in PairChannels : WsClose(c)

PairSpec == PairInit /\ [][PairNext]_vars

\* the SFTP gateway with tracked local copies, serving downloads only
WatchTypes == {"connect", "download_and_track", "disconnect"}

WatchNext ==
    \/ \E c \in Channels, id \in FreshIds : WsConnection(c, id)
    \/ \E c \in Channels, type \in WatchTypes : Message(c, type)
    \/ \E k \in Conns : ConnReady(k)
    \/ \E k \in Conns, ok \in BOOLEAN : SubsystemOpened(k, ok)
    \/ \E k \in Conns : ConnError(k)
    \/ \E k \in Conns : ConnClose(k)
    \/ \E p \in pending, ok \in BOOLEAN : RequestDone(p, ok)
    \/ \E p \in pending, ok \in BOOLEAN : FastPutDone(p, ok)
    \/ \E w \in watchers : FileChange(w)
    \/ \E t \in timers : DebounceFire(t)
    \/ \E c \in Channels : WsClose(c)

WatchSpec == SyncInit /\ [][WatchNext]_vars

\* ------------------------------------------------------- the port of a connection
Digits == <<"0", "1", "2", "3", "4", "5", "6", "7", "8", "9">>
IsDigit(ch) == \E d \in 1..10 : Digits[d] = ch
DigitValue(ch) == (CHOOSE d \in 1..10 : Digits[d] = ch) - 1

\* the longest prefix of cs that consists of decimal digits
RECURSIVE DigitPrefix(_)
DigitPrefix(cs) ==
    IF cs = <<>> \/ ~IsDigit(Head(cs)) THEN <<>> ELSE <<Head(cs)>> \o DigitPrefix(Tail(cs))

\* the number a sequence of decimal digits denotes
RECURSIVE Decimal(_)
Decimal(ds) ==
    IF ds = <<>> THEN 0 ELSE 10 * Decimal(SubSeq(ds, 1, Len(ds) - 1)) + DigitValue(ds[Len(ds)])

\* leading white space removed
RECURSIVE TrimStart(_)
TrimStart(cs) == IF cs # <<>> /\ Head(cs) = " " THEN TrimStart(Tail(cs)) ELSE cs

\* parseInt(v, 10): the argument is converted to a string, leading white space is
\* skipped, and the leading decimal digits are read; NaN when there is none
ParseInt(v) ==
    IF v.kind = "number" THEN v.value
    ELSE IF v.kind = "string"
         THEN LET ds == DigitPrefix(TrimStart(v.chars))
              IN  IF ds = <<>> THEN NaN ELSE Decimal(ds)
    ELSE NaN

\* x || 22: NaN and 0 are falsy
OrDefault(x) == IF x = NaN \/ x = 0 THEN DefaultPort ELSE x

\* the `port` member of the object given to conn.connect(...)
ConnectPort(v) == IF variant = "terminus" THEN DefaultPort ELSE OrDefault(ParseInt(v))

\* the `port` values the model's clients put in a connect payload
PortChars == {"2", "5", "x", " "}
Ports == {Undefined, Number(0), Number(22), Number(2222)}
             \cup {String(cs) : cs \in UNION {[1..n -> PortChars] : n \in 0..2}}

\* ws.on('message') for a `connect` whose payload holds the given port
ConnectTo(c, port) ==
    /\ ~crashed
    /\ ws[c] = "open"
    /\ nMsgs < MaxMsgs
    /\ nMsgs' = nMsgs + 1
    /\ Connect(c)
    /\ dialed' = [dialed EXCEPT ![nConns + 1] = [given |-> port, used |-> ConnectPort(port)]]
    /\ UNCHANGED <<app, variant, ws, connectionId, crashed, sftpTrackedFiles, watchers,
                   timers, nTimers, files, remoteFs, calls, replies>>

DialNext ==
    \/ \E c \in Channels, id \in FreshIds : WsConnection(c, id)
    \/ \E c \in Channels, port \in Ports : ConnectTo(c, port)

DialSpec == Init /\ [][DialNext]_vars

\* ------------------------------------------------- SFTP requests and their payloads
\* path.posix: the segments of a path text, and whether it starts at the root
Segments(text)   == SelectSeq(text, LAMBDA t : t # Slash)
IsAbsolute(text) == text # <<>> /\ Head(text) = Slash

\* path normalisation: "." is dropped, ".." removes the segment before it (at the
\* root it is dropped; in front of a relative path it is kept)
RECURSIVE Normalize(_, _, _)
Normalize(done, segs, abs) ==
    IF segs = <<>> THEN done
    ELSE IF Head(segs) = "." THEN Normalize(done, Tail(segs), abs)
    ELSE IF Head(segs) = ".."
         THEN IF done # <<>> /\ done[Len(done)] # ".."
                 THEN Normalize(SubSeq(done, 1, Len(done) - 1), Tail(segs), abs)
              ELSE IF abs THEN Normalize(done, Tail(segs), abs)
              ELSE Normalize(Append(done, ".."), Tail(segs), abs)
    ELSE Normalize(Append(done, Head(segs)), Tail(segs), abs)

\* the text of a path with the given segments
RECURSIVE Render(_)
Render(segs) ==
    IF segs = <<>> THEN <<>>
    ELSE IF Len(segs) = 1 THEN segs
    ELSE <<Head(segs), Slash>> \o Render(Tail(segs))

\* path.posix.join(a, b)
PosixJoin(a, b) ==
    LET abs  == IsAbsolute(IF a # <<>> THEN a ELSE b)
        segs == Normalize(<<>>, Segments(a) \o Segments(b), abs)
    IN  IF abs THEN <<Slash>> \o Render(segs)
        ELSE IF segs = <<>> THEN <<".">> ELSE Render(segs)

\* path.posix.basename(p)
PosixBasename(p) == LET segs == Segments(p) IN IF segs = <<>> THEN <<>> ELSE <<segs[Len(segs)]>>

\* the node a path text names on the server: relative paths start in the home directory
Resolve(text) ==
    IF IsAbsolute(text) THEN Normalize(<<>>, Segments(text), TRUE)
    ELSE Normalize(Home, Segments(text), TRUE)

IsDir(fs, segs)  == \E n \in fs : n.path = segs /\ n.kind = "d"
Exists(fs, segs) == \E n \in fs : n.path = segs
Parent(segs)     == SubSeq(segs, 1, Len(segs) - 1)

\* the base64 alphabet, and the character codes of its characters
Base64Chars ==
    <<"A", "B", "C", "D", "E", "F", "G", "H", "I", "J", "K", "L", "M", "N", "O", "P",
      "Q", "R", "S", "T", "U", "V", "W", "X", "Y", "Z", "a", "b", "c", "d", "e", "f",
      "g", "h", "i", "j", "k", "l", "m", "n", "o", "p", "q", "r", "s", "t", "u", "v",
      "w", "x", "y", "z", "0", "1", "2", "3", "4", "5", "6", "7", "8", "9", "+", "/">>
IsBase64(ch) == \E i \in 1..64 : Base64Chars[i] = ch
Sextet(ch)   == (CHOOSE i \in 1..64 : Base64Chars[i] = ch) - 1
CharCode(ch) ==
    IF ch = "=" THEN 61
    ELSE LET v == Sextet(ch)
         IN  IF v < 26 THEN 65 + v
             ELSE IF v < 52 THEN 97 + (v - 26)
             ELSE IF v < 62 THEN 48 + (v - 52)
             ELSE IF v = 62 THEN 43 ELSE 47

\* the characters in front of the first "=" that belong to the alphabet
RECURSIVE Base64Body(_)
Base64Body(cs) ==
    IF cs = <<>> \/ Head(cs) = "=" THEN <<>>
    ELSE IF IsBase64(Head(cs)) THEN <<Sextet(Head(cs))>> \o Base64Body(Tail(cs))
    ELSE Base64Body(Tail(cs))

\* four sextets are three bytes; three are two bytes; two are one byte
RECURSIVE Base64Bytes(_)
Base64Bytes(vs) ==
    IF Len(vs) < 2 THEN <<>>
    ELSE LET b1 == (vs[1] * 4 + vs[2] \div 16) % 256
             b2 == (vs[2] * 16 + vs[3] \div 4) % 256
             b3 == (vs[3] * 64 + vs[4]) % 256
         IN  IF Len(vs) = 2 THEN <<b1>>
             ELSE IF Len(vs) = 3 THEN <<b1, b2>>
             ELSE <<b1, b2, b3>> \o Base64Bytes(SubSeq(vs, 5, Len(vs)))

\* Buffer.from(fileData, encoding) for the encodings 'base64' and 'utf8' (the
\* characters of the model's payloads are ASCII: one byte each in UTF-8)
BufferFrom(fileData, encoding) ==
    IF encoding = "base64" THEN Base64Bytes(Base64Body(fileData))
    ELSE [i \in 1..Len(fileData) |-> CharCode(fileData[i])]

\* buffer.toString('utf8'): the code points of the text; a byte sequence that is not
\* well formed becomes U+FFFD (forms of one and two bytes; the model's files hold no
\* byte above 0xDF)
RECURSIVE Utf8ToString(_)
Utf8ToString(bytes) ==
    IF bytes = <<>> THEN <<>>
    ELSE LET b == Head(bytes)
         IN  IF b < 128 THEN <<b>> \o Utf8ToString(Tail(bytes))
             ELSE IF b >= 194 /\ b < 224 /\ Len(bytes) >= 2 /\ bytes[2] >= 128 /\ bytes[2] < 192
                  THEN <<(b - 192) * 64 + (bytes[2] - 128)>> \o Utf8ToString(Tail(Tail(bytes)))
             ELSE <<65533>> \o Utf8ToString(Tail(bytes))

\* Buffer.concat(chunks)
RECURSIVE BufferConcat(_)
BufferConcat(chunks) ==
    IF chunks = <<>> THEN <<>> ELSE Head(chunks) \o BufferConcat(Tail(chunks))

\* err.message of a failed SFTP call: the status texts of ssh2
ErrorMessages == {"No such file", "Failure"}

\* the payloads the model's clients send
Absent        == "absent"                          \* no `encoding` member
ListPaths     == {<<Slash, "home", Slash, "u">>, <<Slash, "home", Slash, "nope">>, <<"nope">>}
ContentPaths  == {<<Slash, "home", Slash, "u", Slash, "a.txt">>, <<"nope">>}
UploadNames   == {<<"x.txt">>, <<"sub", Slash, "x.txt">>}
UploadData    == {<<"a", "G", "k", "=">>}
Encodings     == {Absent, "base64", "utf8"}
FolderNames   == {<<"sub">>, <<"new">>}
RemoteDirs    == {<<Slash, "home", Slash, "u">>}
FilePayloads(type) ==
    IF type = "list" THEN [path : ListPaths]
    ELSE IF type = "get_content" THEN [path : ContentPaths]
    ELSE IF type = "upload"
         THEN [remoteDir : RemoteDirs, fileName : UploadNames, fileData : UploadData,
               encoding : Encodings]
    ELSE IF type = "create_folder" THEN [parentDir : RemoteDirs, name : FolderNames]
    ELSE {}

\* ws.send(...) of a response with its payload
Answer(c, type, payload, req) ==
    IF ws[c] = "open" THEN Append(replies, [type |-> type, payload |-> payload, req |-> req])
    ELSE replies

\* sendError(text)
SendError(c, text, req) == Answer(c, "error", [message |-> text], req)

\* sendSuccess(message, dirToRefresh)
SendSuccess(c, message, dirToRefresh, req) ==
    Answer(c, "operation_success", [message |-> message, dirToRefresh |-> dirToRefresh], req)

\* the text handleSftpError sends
HandleSftpError(operation, target, errmsg) ==
    <<"Failed to ", operation, " ">> \o PosixBasename(target) \o <<": ", errmsg>>

\* ws.on('message') for an SFTP request with its payload: the call is issued (the
\* upload of the auto-sync variant first writes a temporary file, whose path is
\* `upload-${Date.now()}-${fileName}` in SFTP_TEMP_DIR); `after` is the
\* number of responses the client had when it sent the request
FileRequest(c, type, args) ==
    LET e    == sftpConnections[connectionId[c]]
        temp == type = "upload" /\ variant = "autosync"
    IN  /\ ~crashed
        /\ ws[c] = "open"
        /\ nMsgs < MaxMsgs
        /\ nMsgs' = nMsgs + 1
        /\ \E now \in (IF temp /\ e.sftp # 0 THEN {clock, clock + 1} ELSE {clock}) :
              /\ clock' = now
              /\ calls' = IF type \in Operations /\ e.sftp # 0
                             THEN calls \cup
                                  {[req |-> nMsgs + 1, ws |-> c, op |-> type, args |-> args,
                                    chunks |-> <<>>, offset |-> 0, done |-> FALSE,
                                    after |-> Len(replies), temp |-> temp,
                                    tempFilePath |->
                                        IF temp THEN [upload |-> now, name |-> args.fileName]
                                        ELSE [upload |-> -1, name |-> <<>>]]}
                          ELSE calls
        /\ UNCHANGED <<variant, ws, connectionId, sftpConnections, conns, nConns, pending,
                       sent, teardown, crashed, sftpTrackedFiles, watchers, timers, nTimers,
                       files, shell, app, dialed, remoteFs, replies>>

\* the callback of a call has run (the stream of a call has ended)
Finish(call) ==
    (calls \ {call}) \cup {[call EXCEPT !.done = TRUE, !.chunks = <<>>, !.offset = 0]}

\* the entries sftp.readdir reports for a directory, as the gateway maps them
Items(fs, dir) ==
    {[name |-> n.path[Len(n.path)], type |-> IF n.kind = "d" THEN "folder" ELSE "file"] :
        n \in {m \in fs : m.path # <<>> /\ Parent(m.path) = dir}}

\* the callback of sftp.readdir; the original gateway answers { path, items }, the
\* auto-sync variant also echoes the isRoot member of the request (a member the
\* request does not have is left out of the JSON text)
ReaddirDone(call, ok) ==
    /\ ~crashed
    /\ call \in calls /\ ~call.done /\ call.op = "list"
    /\ ok => IsDir(remoteFs, Resolve(call.args.path))
    /\ calls' = Finish(call)
    /\ IF ok
          THEN LET items == Items(remoteFs, Resolve(call.args.path))
               IN  replies' = Answer(call.ws, "list",
                                     IF variant = "autosync" /\ "isRoot" \in DOMAIN call.args
                                        THEN [path |-> call.args.path, items |-> items,
                                              isRoot |-> call.args.isRoot]
                                        ELSE [path |-> call.args.path, items |-> items],
                                     call.req)
          ELSE \E m \in ErrorMessages :
                  replies' = SendError(call.ws,
                                       IF variant = "sftp"
                                          THEN HandleSftpError("list", call.args.path, m)
                                          ELSE <<"SFTP list error: ", m>>, call.req)
    /\ UNCHANGED <<gw, sync, shell, app, dialed, remoteFs>>

\* the file a call reads; no bytes when there is none
ContentOf(fs, segs) ==
    IF \E n \in fs : n.path = segs /\ n.kind = "-"
       THEN (CHOOSE n \in fs : n.path = segs /\ n.kind = "-").content ELSE <<>>

\* stream.on('data'): the next chunk of the file is pushed
ReadData(call, size) ==
    LET bytes == ContentOf(remoteFs, Resolve(call.args.path))
    IN  /\ ~crashed
        /\ call \in calls /\ ~call.done /\ call.op = "get_content"
        /\ call.offset + size <= Len(bytes)
        /\ calls' = (calls \ {call}) \cup
                {[call EXCEPT !.chunks = Append(@, SubSeq(bytes, call.offset + 1, call.offset + size)),
                              !.offset = @ + size]}
        /\ UNCHANGED <<gw, sync, shell, app, dialed, remoteFs, replies>>

\* a stream.on('error') handler that answers with what was read so far
ReadErrorPartial(call) ==
    /\ ~crashed
    /\ call \in calls /\ ~call.done /\ call.op = "get_content"
    /\ calls' = Finish(call)
    /\ replies' = Answer(call.ws, "file_content",
                          [path |-> call.args.path,
                           content |-> Utf8ToString(BufferConcat(call.chunks))], call.req)
    /\ UNCHANGED <<gw, sync, shell, app, dialed, remoteFs>>

\* stream.on('error'): the read failed; the stream emits nothing afterwards
ReadError(call) ==
    /\ ~crashed
    /\ call \in calls /\ ~call.done /\ call.op = "get_content"
    /\ calls' = Finish(call)
    /\ \E m \in ErrorMessages :
          replies' = SendError(call.ws,
                               HandleSftpError("get content for", call.args.path, m), call.req)
    /\ UNCHANGED <<gw, sync, shell, app, dialed, remoteFs>>

\* stream.on('end'): the file was read to its end
ReadEnd(call) ==
    LET segs == Resolve(call.args.path)
    IN  /\ ~crashed
        /\ call \in calls /\ ~call.done /\ call.op = "get_content"
        /\ \E n \in remoteFs : n.path = segs /\ n.kind = "-"
        /\ call.offset = Len(ContentOf(remoteFs, segs))
        /\ calls' = Finish(call)
        /\ replies' = Answer(call.ws, "file_content",
                              [path |-> call.args.path,
                               content |-> Utf8ToString(BufferConcat(call.chunks))], call.req)
        /\ UNCHANGED <<gw, sync, shell, app, dialed, remoteFs>>

\* the callback of fs.writeFile(tempFilePath, buffer) (auto-sync): the temporary
\* file is `upload-${Date.now()}-${fileName}` in a flat directory
TempWritten(call, ok) ==
    /\ ~crashed
    /\ call \in calls /\ ~call.done /\ call.op = "upload" /\ call.temp
    /\ ok => Len(call.args.fileName) = 1
    /\ IF ok
          THEN /\ calls' = (calls \ {call}) \cup {[call EXCEPT !.temp = FALSE]}
               /\ files' = files \cup {call.tempFilePath}
               /\ UNCHANGED replies
          ELSE /\ calls' = Finish(call)
               /\ \E partial \in BOOLEAN :
                     files' = IF partial /\ Len(call.args.fileName) = 1
                                 THEN files \cup {call.tempFilePath} ELSE files
               /\ replies' = SendError(call.ws,
                                       <<"Failed to write temp file for upload: ", "ENOENT">>,
                                       call.req)
    /\ UNCHANGED <<gw, clock, sftpTrackedFiles, watchers, timers, nTimers, shell, app,
                   dialed, remoteFs>>

\* the encoding the upload branch decodes fileData with
UploadEncodingUtf8(args) ==
    IF variant = "sftp" THEN (IF args.encoding = Absent THEN "utf8" ELSE args.encoding)
    ELSE "base64"
UploadEncoding(args) ==
    IF variant = "sftp" THEN (IF args.encoding = Absent THEN "base64" ELSE args.encoding)
    ELSE "base64"

\* the server's file system after a write of the bytes to the path
WriteFile(fs, segs, bytes) == {n \in fs : n.path # segs} \cup {File(segs, bytes)}

\* an upload callback that removes the temporary file only after a successful put
UploadDoneKeepsTemp(call, ok) ==
    LET remotePath == PosixJoin(call.args.remoteDir, call.args.fileName)
        segs       == Resolve(remotePath)
        writable   == segs # <<>> /\ IsDir(remoteFs, Parent(segs)) /\ ~IsDir(remoteFs, segs)
        buffer     == BufferFrom(call.args.fileData, UploadEncoding(call.args))
    IN  /\ ~crashed
        /\ call \in calls /\ ~call.done /\ call.op = "upload" /\ ~call.temp
        /\ ok => writable
        /\ calls' = Finish(call)
        /\ IF ok
              THEN /\ remoteFs' = WriteFile(remoteFs, segs, buffer)
                   /\ replies' =
                        IF variant = "sftp"
                           THEN SendSuccess(call.ws, <<"Uploaded ">> \o call.args.fileName,
                                            call.args.remoteDir, call.req)
                           ELSE SendSuccess(call.ws, <<"Uploaded ">> \o call.args.fileName
                                                         \o <<" successfully.">>,
                                            call.args.remoteDir, call.req)
              ELSE /\ \E partial \in BOOLEAN :
                        remoteFs' = IF partial /\ writable
                                       THEN WriteFile(remoteFs, segs, <<>>) ELSE remoteFs
                   /\ \E m \in ErrorMessages :
                        replies' = SendError(call.ws,
                                             IF variant = "sftp"
                                                THEN HandleSftpError("upload", remotePath, m)
                                                ELSE <<"Upload failed: ", m>>, call.req)
        /\ files' = IF variant = "autosync" /\ ok THEN files \ {call.tempFilePath} ELSE files
        /\ UNCHANGED <<gw, clock, sftpTrackedFiles, watchers, timers, nTimers, shell, app, dialed>>

\* stream 'finish' / 'error' (ws-sftp.js), the callback of sftp.fastPut (auto-sync)
UploadDone(call, ok) ==
    LET remotePath == PosixJoin(call.args.remoteDir, call.args.fileName)
        segs       == Resolve(remotePath)
        writable   == segs # <<>> /\ IsDir(remoteFs, Parent(segs)) /\ ~IsDir(remoteFs, segs)
        buffer     == BufferFrom(call.args.fileData, UploadEncoding(call.args))
    IN  /\ ~crashed
        /\ call \in calls /\ ~call.done /\ call.op = "upload" /\ ~call.temp
        /\ ok => writable
        /\ calls' = Finish(call)
        /\ IF ok
              THEN /\ remoteFs' = WriteFile(remoteFs, segs, buffer)
                   /\ replies' =
                        IF variant = "sftp"
                           THEN SendSuccess(call.ws, <<"Uploaded ">> \o call.args.fileName,
                                            call.args.remoteDir, call.req)
                           ELSE SendSuccess(call.ws, <<"Uploaded ">> \o call.args.fileName
                                                         \o <<" successfully.">>,
                                            call.args.remoteDir, call.req)
              ELSE /\ \E partial \in BOOLEAN :
                        remoteFs' = IF partial /\ writable
                                       THEN WriteFile(remoteFs, segs, <<>>) ELSE remoteFs
                   /\ \E m \in ErrorMessages :
                        replies' = SendError(call.ws,
                                             IF variant = "sftp"
                                                THEN HandleSftpError("upload", remotePath, m)
                                                ELSE <<"Upload failed: ", m>>, call.req)
        /\ files' = IF variant = "autosync" THEN files \ {call.tempFilePath} ELSE files
        /\ UNCHANGED <<gw, clock, sftpTrackedFiles, watchers, timers, nTimers, shell, app, dialed>>

\* the response of the create_folder branch
FolderAnswer(call, newPath, ok, m) ==
    IF ok
       THEN SendSuccess(call.ws,
                        IF variant = "sftp" THEN <<"Created folder ">> \o call.args.name
                        ELSE <<"Created folder ">> \o call.args.name \o <<".">>,
                        call.args.parentDir, call.req)
       ELSE SendError(call.ws,
                      IF variant = "sftp" THEN HandleSftpError("create folder", newPath, m)
                      ELSE <<"Failed to create folder: ", m>>, call.req)

\* a callback of sftp.mkdir that drops the registry entry when the call failed
MkdirDoneDropsEntry(call, ok) ==
    LET newPath == PosixJoin(call.args.parentDir, call.args.name)
        segs    == Resolve(newPath)
    IN  /\ ~crashed
        /\ call \in calls /\ ~call.done /\ call.op = "create_folder"
        /\ ok => (~Exists(remoteFs, segs) /\ IsDir(remoteFs, Parent(segs)))
        /\ calls' = Finish(call)
        /\ remoteFs' = IF ok THEN remoteFs \cup {Dir(segs)} ELSE remoteFs
        /\ sftpConnections' = IF ok THEN sftpConnections
                              ELSE MapDelete(sftpConnections, connectionId[call.ws])
        /\ \E m \in ErrorMessages : replies' = FolderAnswer(call, newPath, ok, m)
        /\ UNCHANGED <<variant, ws, connectionId, conns, nConns, nMsgs, pending, sent,
                       teardown, crashed, sync, shell, app, dialed>>

\* the callback of sftp.mkdir: the server refuses a path that exists
MkdirDone(call, ok) ==
    LET newPath == PosixJoin(call.args.parentDir, call.args.name)
        segs    == Resolve(newPath)
    IN  /\ ~crashed
        /\ call \in calls /\ ~call.done /\ call.op = "create_folder"
        /\ ok => (~Exists(remoteFs, segs) /\ IsDir(remoteFs, Parent(segs)))
        /\ calls' = Finish(call)
        /\ remoteFs' = IF ok THEN remoteFs \cup {Dir(segs)} ELSE remoteFs
        /\ \E m \in ErrorMessages : replies' = FolderAnswer(call, newPath, ok, m)
        /\ UNCHANGED <<gw, sync, shell, app, dialed>>

ChunkSizes == {1, 2}

FileInit == Init /\ variant \in {"sftp", "autosync"}

\* the session with list requests only
ListNext ==
    \/ \E c \in Channels, id \in FreshIds : WsConnection(c, id)
    \/ \E c \in Channels : Message(c, "connect")
    \/ \E k \in Conns : ConnReady(k)
    \/ \E k \in Conns : SubsystemOpened(k, TRUE)
    \/ \E c \in Channels, args \in FilePayloads("list") : FileRequest(c, "list", args)
    \/ \E call \in calls, ok \in BOOLEAN : ReaddirDone(call, ok)

ListSpec == FileInit /\ [][ListNext]_vars

\* the session with upload and list requests
RoundTripNext ==
    \/ \E c \in Channels, id \in FreshIds : WsConnection(c, id)
    \/ \E c \in Channels : Message(c, "connect")
    \/ \E k \in Conns : ConnReady(k)
    \/ \E k \in Conns : SubsystemOpened(k, TRUE)
    \/ \E c \in Channels, type \in {"upload", "list"} :
          \E args \in FilePayloads(type) : FileRequest(c, type, args)
    \/ \E call \in calls, ok \in BOOLEAN : ReaddirDone(call, ok)
    \/ \E call \in calls, ok \in BOOLEAN : TempWritten(call, ok)
    \/ \E call \in calls, ok \in BOOLEAN : UploadDone(call, ok)

RoundTripSpec == FileInit /\ [][RoundTripNext]_vars

\* the session with get_content requests only
ReadNext ==
    \/ \E c \in Channels, id \in FreshIds : WsConnection(c, id)
    \/ \E c \in Channels : Message(c, "connect")
    \/ \E k \in Conns : ConnReady(k)
    \/ \E k \in Conns : SubsystemOpened(k, TRUE)
    \/ \E c \in Channels, args \in FilePayloads("get_content") :
          FileRequest(c, "get_content", args)
    \/ \E call \in calls, size \in ChunkSizes : ReadData(call, size)
    \/ \E call \in calls : ReadError(call)
    \/ \E call \in calls : ReadEnd(call)

ReadSpec == FileInit /\ [][ReadNext]_vars

\* the session with upload requests only
UploadNext ==
    \/ \E c \in Channels, id \in FreshIds : WsConnection(c, id)
    \/ \E c \in Channels : Message(c, "connect")
    \/ \E k \in Conns : ConnReady(k)
    \/ \E k \in Conns : SubsystemOpened(k, TRUE)
    \/ \E c \in Channels, args \in FilePayloads("upload") : FileRequest(c, "upload", args)
    \/ \E call \in calls, ok \in BOOLEAN : TempWritten(call, ok)
    \/ \E call \in calls, ok \in BOOLEAN : UploadDone(call, ok)

UploadSpec == FileInit /\ [][UploadNext]_vars

\* the session with create_folder requests only
FolderNext ==
    \/ \E c \in Channels, id \in FreshIds : WsConnection(c, id)
    \/ \E c \in Channels : Message(c, "connect")
    \/ \E k \in Conns : ConnReady(k)
    \/ \E k \in Conns : SubsystemOpened(k, TRUE)
    \/ \E c \in Channels, args \in FilePayloads("create_folder") :
          FileRequest(c, "create_folder", args)
    \/ \E call \in calls, ok \in BOOLEAN : MkdirDone(call, ok)

FolderSpec == FileInit /\ [][FolderNext]_vars

\* ------------------------------------------- the client app presenting a listing
\* the spelling of the server's names
Spelling(name) ==
    CASE name = "sub"   -> <<"s", "u", "b">>
      [] name = "Zed"   -> <<"Z", "e", "d">>
      [] name = "a.txt" -> <<"a", ".", "t", "x", "t">>
      [] name = "B.txt" -> <<"B", ".", "t", "x", "t">>
      [] OTHER          -> <<>>

\* lexicographic comparison of two sequences of numbers: -1, 0 or 1
RECURSIVE SeqCompare(_, _)
SeqCompare(x, y) ==
    IF x = <<>> THEN (IF y = <<>> THEN 0 ELSE -1)
    ELSE IF y = <<>> THEN 1
    ELSE IF Head(x) < Head(y) THEN -1
    ELSE IF Head(x) > Head(y) THEN 1
    ELSE SeqCompare(Tail(x), Tail(y))

\* a.localeCompare(b): the characters are weighed by their place in the collation
\* order (punctuation before letters, whatever the case), the case breaks a tie
\* (lower case first)
LocaleCompare(a, b) ==
    LET Collation    == <<".", "a", "b", "d", "e", "s", "t", "u", "x", "z">>
        Lower(ch)    == IF ch = "B" THEN "b" ELSE IF ch = "Z" THEN "z" ELSE ch
        Primary(ch)  == CHOOSE i \in 1..Len(Collation) : Collation[i] = Lower(ch)
        Tertiary(ch) == IF Lower(ch) = ch THEN 0 ELSE 1
        x == Spelling(a)
        y == Spelling(b)
        letters == SeqCompare([i \in 1..Len(x) |-> Primary(x[i])],
                              [i \in 1..Len(y) |-> Primary(y[i])])
    IN  IF letters # 0 THEN letters
        ELSE SeqCompare([i \in 1..Len(x) |-> Tertiary(x[i])],
                        [i \in 1..Len(y) |-> Tertiary(y[i])])

\* Array.prototype.sort (a stable sort) with the comparator of the client: folders
\* before files, names of one type by localeCompare
RECURSIVE Insert(_, _)
Insert(sorted, x) ==
    LET Compare(a, b) == IF a.type = b.type THEN LocaleCompare(a.name, b.name)
                         ELSE IF a.type = "folder" THEN -1 ELSE 1
    IN  IF sorted = <<>> THEN <<x>>
        ELSE IF Compare(sorted[Len(sorted)], x) <= 0 THEN Append(sorted, x)
        ELSE Append(Insert(SubSeq(sorted, 1, Len(sorted) - 1), x), sorted[Len(sorted)])

RECURSIVE SortItems(_)
SortItems(arr) ==
    IF arr = <<>> THEN <<>>
    ELSE Insert(SortItems(SubSeq(arr, 1, Len(arr) - 1)), arr[Len(arr)])

\* the `list` case of ws.onmessage: the root listing replaces what is presented, any
\* other listing is spliced in behind its folder (prev.findIndex), when that folder
\* is presented
SetRemoteItems(payload, newChildren, prev) ==
    IF "isRoot" \in DOMAIN payload /\ payload.isRoot THEN newChildren
    ELSE LET found       == {i \in DOMAIN prev : prev[i].path = payload.path}
             parentIndex == IF found = {} THEN 0
                            ELSE CHOOSE i \in found : \A j \in found : i <= j
         IN  IF parentIndex # 0
                THEN SubSeq(prev, 1, parentIndex) \o newChildren
                     \o SubSeq(prev, parentIndex + 1, Len(prev))
                ELSE prev

\* the payload of the list the app sends by itself: fetchRemoteFiles(remotePath, true)
RootList == [path |-> <<".">>, isRoot |-> TRUE]

\* the gateway receives the next message the app has sent, a `list` with its payload
DeliverPayload ==
    /\ nMsgs < Len(outlog)
    /\ IF outlog[nMsgs + 1] = "list"
          THEN FileRequest(AppChannel, "list", RootList)
          ELSE Message(AppChannel, outlog[nMsgs + 1])

\* ws.onmessage for the next SFTP response: `list` and `error`; the items come in
\* any order sftp.readdir reports them, each with path.posix.join(reqPath, name)
OnResponse ==
    /\ readyState \in {"open", "closing"}
    /\ nHandled < Len(replies)
    /\ nHandled' = nHandled + 1
    /\ LET msg == replies[nHandled + 1]
           Arrays(items) ==
               {arr \in [1..Cardinality(items) -> items] :
                   \A i, j \in DOMAIN arr : i # j => arr[i] # arr[j]}
           WithPath(reqPath, arr) ==
               [i \in DOMAIN arr |-> [name |-> arr[i].name, type |-> arr[i].type,
                                      path |-> PosixJoin(reqPath, <<arr[i].name>>)]]
       IN  IF msg.type = "list"
              THEN /\ \E arr \in Arrays(msg.payload.items) :
                         remoteItems' = SetRemoteItems(msg.payload,
                                                       SortItems(WithPath(msg.payload.path, arr)),
                                                       remoteItems)
                   /\ UNCHANGED <<status, readyState>>
              ELSE /\ status' = "error"
                   /\ readyState' = "closing"
                   /\ UNCHANGED remoteItems
    /\ UNCHANGED <<gw, sync, shell, detail, closureStatus, outlog, seen>>

\* the client app against the gateway, with the listing it requests by itself
BrowseNext ==
    \/ HandleConnect
    \/ \E id \in FreshIds : Accept(id)
    \/ OnOpen
    \/ DeliverPayload
    \/ \E k \in Conns : ConnReady(k)
    \/ \E k \in Conns, ok \in BOOLEAN : SubsystemOpened(k, ok)
    \/ \E k \in Conns : ConnError(k)
    \/ \E k \in Conns : ConnClose(k)
    \/ \E call \in calls, ok \in BOOLEAN : ReaddirDone(call, ok)
    \/ \E m \in BagToSet(sent[AppChannel]) : OnMessage(m)
    \/ OnResponse
    \/ HandleDisconnect
    \/ Hangup
    \/ OnClose

BrowseSpec == FileInit /\ [][BrowseNext]_vars

TypeOK ==
    /\ variant \in Variants
    /\ crashed \in BOOLEAN
    /\ nConns \in 0..MaxConns

\* ------------------------------------------------------------------ claims
Open(k)        == conns[k].st \in {"connecting", "ready"}
IdOf(k)        == connectionId[conns[k].ws]
Bound(c)       == sftpConnections[connectionId[c]]
EntryOfConn(k) == IF conns[k].st = "unused" THEN NoEntry ELSE sftpConnections[IdOf(k)]
Delivered(c, m) == sent'[c] = sent[c] (+) SetToBag({m})

\* C1: after the channel has closed the registry never holds an entry under the
\* session's id; the close event of a connection leaves no entry under its id; and
\* once conn.end() was called (a `disconnect` was processed) the registry eventually
\* holds no entry under the id (or the process is gone).
C1_RegistryPurged ==
    /\ [](\A c \in Channels : ws[c] = "closed" => Bound(c) = NoEntry)
    /\ [][\A k \in Conns : ConnClose(k) => sftpConnections'[IdOf(k)] = NoEntry]_vars
    /\ \A k \in Conns :
          (Open(k) /\ conns[k].ended) ~> (crashed \/ EntryOfConn(k) = NoEntry)

\* a `disconnect` was processed on an open channel of the SFTP gateway, the close
\* event was delivered and the registry holds no entry
C1_Witness ==
    \E k \in Conns :
        /\ variant = "sftp"
        /\ conns[k].st = "closed" /\ conns[k].ended /\ ~conns[k].errored
        /\ ws[conns[k].ws] = "open"
        /\ sftpConnections[IdOf(k)] = NoEntry

\* C2: (auto-sync) once a channel has closed, no watcher is open, no debounce timer
\* is pending, no tracked-file entry exists and no temporary file remains for it.
C2_ChannelCloseReleasesAll ==
    \A c \in Channels : ws[c] = "closed" =>
        /\ \A w \in watchers : w.ws # c
        /\ \A t \in timers : t.ws # c
        /\ TrackedBy(connectionId[c]) = {}
        /\ \A f \in files : f.id # connectionId[c]

\* C3: (auto-sync) once conn.end() was called for a `disconnect`, or the connection
\* has closed, no watcher and no debounce timer created on that connection is left,
\* and no debounce timer of it fires an upload afterwards.
Gone(k) == conns[k].st = "closed" \/ conns[k].ended

C3_DisconnectReleasesAll ==
    /\ [](\A k \in Conns : Gone(k) =>
             /\ \A w \in watchers : w.sftp # k
             /\ \A t \in timers : t.sftp # k)
    /\ [][\A t \in timers : DebounceFire(t) => ~Gone(t.sftp)]_vars

\* C4: an SFTP operation request received while the registry entry holds no SFTP
\* handle is answered with a "not connected" error and no SFTP call is issued.
C4_NotConnectedAnswered ==
    [][\A c \in Channels, type \in MsgTypes :
          (Message(c, type) /\ type \in Operations /\ Bound(c).sftp = 0) =>
              /\ pending' = pending
              /\ Delivered(c, Msg("error", "not connected", nMsgs'))]_vars

\* C5: a session never has two open secure-shell connections.
C5_OneConnectionPerSession ==
    \A c \in Channels : Cardinality({k \in Conns : Open(k) /\ conns[k].ws = c}) <= 1

\* C6: a connection that is open when its channel has closed is eventually closed
\* (or the process is gone).
C6_EndedAfterChannelClose ==
    \A k \in Conns :
        (Open(k) /\ ws[conns[k].ws] = "closed") ~> (crashed \/ conns[k].st = "closed")

\* C7: when the server closes a ready connection the gateway sends
\* `status: disconnected` and removes the registry entry, and in no run with such a
\* hangup an uncaught exception ends the process.
ServerHangup(k) ==
    ConnClose(k) /\ conns[k].st = "ready" /\ ~conns[k].ended /\ ~conns[k].errored

HungUp(k) ==
    conns[k].st = "closed" /\ conns[k].sub # "none" /\ ~conns[k].ended /\ ~conns[k].errored

C7_HangupHandled ==
    /\ [][\A k \in Conns : ServerHangup(k) =>
             /\ sftpConnections'[IdOf(k)] = NoEntry
             /\ ws[conns[k].ws] = "open" =>
                   Delivered(conns[k].ws, Msg("status", "disconnected", k))]_vars
    /\ []((\E k \in Conns : HungUp(k)) => ~crashed)

\* C8: when a connection fails while connecting, the error handler sends one
\* `error` on the (open) channel and leaves no registry entry under the id; never
\* more than one `error` is delivered for the attempt; the connection never becomes
\* ready and is eventually closed.
FailedConnect(k) == conns[k].errored /\ conns[k].sub = "none"

ErrorsAbout(k) ==
    LET c == conns[k].ws
    IN  CopiesIn(Msg("error", "Connection Error", k), sent[c])
        + CopiesIn(Msg("error", "SFTP Error", k), sent[c])
        + CopiesIn(Msg("error", "shell", k), sent[c])

C8_ConnectFailure ==
    /\ [][\A k \in Conns : (ConnError(k) /\ conns[k].st = "connecting") =>
             /\ sftpConnections'[IdOf(k)] = NoEntry
             /\ ws[conns[k].ws] = "open" =>
                   Delivered(conns[k].ws, Msg("error", "Connection Error", k))]_vars
    /\ [](\A k \in Conns : FailedConnect(k) =>
             /\ ErrorsAbout(k) <= 1
             /\ conns[k].st \in {"connecting", "closed"})
    /\ \A k \in Conns : FailedConnect(k) ~> (crashed \/ conns[k].st = "closed")

\* a connect attempt failed on an open channel: one `error` was delivered, the
\* registry holds no entry and the connection has closed
C8_Witness ==
    \E k \in Conns :
        /\ FailedConnect(k) /\ conns[k].st = "closed"
        /\ ws[conns[k].ws] = "open"
        /\ ErrorsAbout(k) = 1
        /\ sftpConnections[IdOf(k)] = NoEntry

\* C9: in the teardown of a connection the registry entry is removed before the
\* client is notified: no `status: disconnected` is sent for a connection whose
\* registry entry is removed afterwards.
C9_TeardownOrder ==
    \A k \in Conns : \A i, j \in DOMAIN teardown[k] :
        (teardown[k][i] = "notify" /\ teardown[k][j] = "delete") => j < i

\* C10: the callback of a failed SFTP request sends an `error` for that request and
\* changes neither the registry nor any connection, and a request received while
\* the entry holds an SFTP handle is issued on that handle.
C10_OperationErrorKeepsSession ==
    /\ [][\A p \in pending : RequestDone(p, FALSE) =>
             /\ sftpConnections' = sftpConnections
             /\ conns' = conns
             /\ ws[p.ws] = "open" => Delivered(p.ws, Msg("error", p.op, p.req))]_vars
    /\ [][\A c \in Channels, type \in MsgTypes :
             (Message(c, type) /\ type \in Operations /\ Bound(c).sftp # 0) =>
                 \E p \in pending' \ pending :
                     /\ p.ws = c /\ p.op = type /\ p.req = nMsgs'
                     /\ p.sftp = Bound(c).sftp]_vars

\* a request failed and its `error` was delivered; a later request of the same
\* session is in flight on the session's only SFTP handle
C10_Witness ==
    \E c \in Channels, p \in pending :
        /\ nConns = 1 /\ p.ws = c /\ p.sftp = 1
        /\ sftpConnections[connectionId[c]].sftp = 1
        /\ \E r \in 1..(p.req - 1), op \in Operations :
              BagIn(Msg("error", op, r), sent[c])

\* C11: a failed `list` is answered with an `error` message, and when the client app
\* has handled that message its socket is still open, so that the session serves the
\* next `list` the app sends.
C11_ListErrorKeepsSession ==
    /\ [][\A p \in pending :
             (RequestDone(p, FALSE) /\ p.op = "list" /\ ws[p.ws] = "open") =>
                 Delivered(p.ws, Msg("error", "list", p.req))]_vars
    /\ [][\A m \in BagToSet(sent[AppChannel]) :
             (OnMessage(m) /\ m.type = "error" /\ m.payload = "list") =>
                 readyState' = "open"]_vars

\* C12: a message whose handling throws (invalid JSON, a missing payload, a `connect`
\* without a username) leaves the registry entry of a session that holds a handle on
\* an open connection, and every open connection, as they were; it sends nothing or
\* one generic `error`.
C12_MalformedIgnored ==
    [][\A c \in Channels, type \in {"malformed", "connect_invalid"} :
          (Receive(c, type, NoPayload) /\ Bound(c).sftp # 0 /\ Open(Bound(c).ssh)) =>
              /\ Bound(c)' = Bound(c)
              /\ \A k \in Conns : Open(k) => conns'[k] = conns[k]
              /\ \/ sent' = sent
                 \/ Delivered(c, Msg("error", "Invalid message format received.", nMsgs'))
      ]_vars

\* C13: a registry entry that holds a stream or SFTP handle holds a connection, and
\* the handle was opened on that connection.
C13_HandleOnBoundConnection ==
    \A id \in Ids :
        sftpConnections[id].sftp # 0 =>
            /\ sftpConnections[id].ssh # 0
            /\ sftpConnections[id].sftp = sftpConnections[id].ssh

\* C14: of the SFTP handles opened for a channel at most one is on a connection that
\* is open, and all requests of the channel that are in flight were issued on the
\* same handle.
C14_OneHandlePerSession ==
    variant = "sftp" =>
        \A c \in Channels :
            /\ Cardinality({k \in Conns :
                   conns[k].ws = c /\ conns[k].sub = "open" /\ Open(k)}) <= 1
            /\ \A p, q \in pending : (p.ws = c /\ q.ws = c) => p.sftp = q.sftp

\* C15: no two channels that have been opened, whether both are still open or one
\* has closed since, were assigned the same session id.
C15_UniqueIds ==
    \A a, b \in PairChannels :
        (a # b /\ ws[a] # "none" /\ ws[b] # "none") => connectionId[a] # connectionId[b]

\* an event handled for the session of channel a
EventOf(a) ==
    \/ \E type \in MsgTypes : Message(a, type)
    \/ WsClose(a)
    \/ \E k \in Conns :
          /\ conns[k].ws = a
          /\ \/ ConnReady(k)
             \/ \E ok \in BOOLEAN : SubsystemOpened(k, ok)
             \/ ConnError(k)
             \/ ConnClose(k)
    \/ \E p \in pending : p.ws = a /\ \E ok \in BOOLEAN : RequestDone(p, ok)

\* C16: an event handled for one session leaves the registry entry, the connections,
\* the tracked copies and the channel of every other open session (one with another
\* id) as they were, and leaves the process that serves it running.
C16_SessionIsolation ==
    [][\A a, b \in PairChannels :
          (/\ EventOf(a)
           /\ ws[b] = "open"
           /\ ws[a] # "none"
           /\ connectionId[a] # connectionId[b]) =>
              /\ sftpConnections'[connectionId[b]] = sftpConnections[connectionId[b]]
              /\ \A k \in Conns : conns[k].ws = b => conns'[k] = conns[k]
              /\ \A p \in LocalPaths :
                    sftpTrackedFiles[p].connectionId = connectionId[b] =>
                        sftpTrackedFiles'[p] = sftpTrackedFiles[p]
              /\ sent'[b] = sent[b]
              /\ crashed' = crashed]_vars

\* C17: a `data` message received while the session's shell stream is open appends
\* its payload, as it is, to what was written to that stream, and nothing else ever
\* changes what was written to a stream.
C17_ShellInputOrder ==
    /\ [][\A c \in Channels, d \in Inputs :
             (Receive(c, "data", d) /\ Writable(Bound(c))) =>
                 shellIn' = [shellIn EXCEPT ![Bound(c).sftp] = Append(@, d)]]_vars
    /\ [][shellIn' # shellIn =>
             \E c \in Channels, d \in Inputs : Receive(c, "data", d)]_vars

C17_Witness == \E k \in Conns : shellIn[k] = <<"a\n", "b\n">>

IsIncreasing(q) == \A i, j \in 1..Len(q) : i < j => q[i] < q[j]

\* C18: every chunk an open shell stream emits while the channel is open is delivered
\* as one `data` message by the handler that receives it; the `data` messages of a
\* channel are delivered in the order of the chunks, each once.
C18_ShellOutputForwarded ==
    /\ [][\A k \in Conns, src \in {"stdout", "stderr"} :
             (StreamData(k, src) /\ ws[conns[k].ws] = "open") =>
                 /\ Delivered(conns[k].ws, Msg("data", nChunks', 0))
                 /\ forwarded' = [forwarded EXCEPT ![conns[k].ws] = Append(@, nChunks')]
      ]_vars
    /\ [](\A c \in Channels :
             /\ IsIncreasing(forwarded[c])
             /\ \A n \in 1..MaxChunks : CopiesIn(Msg("data", n, 0), sent[c]) <= 1)

C18_Witness ==
    \E c \in Channels :
        /\ forwarded[c] = <<1, 2>>
        /\ BagIn(Msg("data", 1, 0), sent[c]) /\ BagIn(Msg("data", 2, 0), sent[c])

\* C19: when the shell cannot be opened on a ready connection, the client is sent an
\* error, the connection is ended and the registry no longer binds the session to it.
C19_ShellFailureIsFatal ==
    [][\A k \in Conns :
          (SubsystemOpened(k, FALSE) /\ variant = "terminus" /\ EntryOfConn(k).ssh = k) =>
              /\ ws[conns[k].ws] = "open" => Delivered(conns[k].ws, Msg("error", "shell", k))
              /\ conns'[k].ended
              /\ sftpConnections'[IdOf(k)].ssh # k]_vars

\* C20: a `resize` message sets the window of the session's open shell stream to the
\* rows and columns of its payload and changes nothing when there is no open stream;
\* it writes nothing to a stream, sends nothing, and leaves registry, connections
\* and requests as they were.
C20_ResizeOnlyGeometry ==
    [][\A c \in Channels, z \in Sizes :
          Receive(c, "resize", z) =>
              /\ shellIn' = shellIn
              /\ sent' = sent
              /\ sftpConnections' = sftpConnections
              /\ conns' = conns
              /\ pending' = pending
              /\ pty' = IF Writable(Bound(c)) THEN [pty EXCEPT ![Bound(c).sftp] = z]
                        ELSE pty]_vars

C20_Witness ==
    \E k \in Conns :
        /\ pty[k] = [rows |-> 40, cols |-> 120]
        /\ conns[k].sub = "open"
        /\ shellIn[k] = <<"a\n">>

\* C23: a request received while earlier requests of the session are in flight is
\* handed to the SFTP subsystem in the same step, next to the earlier ones; and any
\* request in flight on a working connection, not only the oldest, can complete next.
C23_NotSerialized ==
    /\ [][\A c \in Channels, type \in MsgTypes :
             (Message(c, type) /\ type \in Operations /\ Bound(c).sftp # 0) =>
                 /\ pending \subseteq pending'
                 /\ \E p \in pending' \ pending : p.ws = c /\ p.req = nMsgs']_vars
    /\ [](\A p \in pending :
             (p.tid = 0 /\ ~crashed /\ conns[p.sftp].st = "ready" /\ ~conns[p.sftp].errored)
                 => ENABLED RequestDone(p, TRUE))

\* the answer to a later request was sent while an earlier request is in flight
C23_Witness ==
    \E c \in Channels, p \in pending, r \in 1..MaxMsgs, op \in Operations :
        /\ p.ws = c /\ p.tid = 0 /\ r > p.req
        /\ BagIn(Msg(ResponseType(op), op, r), sent[c])

\* C29: (auto-sync) at most one debounce timer is pending per tracked file; a change
\* event on a tracked file leaves, for that file, only the timer it starts; and the
\* timer that fires an upload is the one started by the last change of the file.
C29_DebounceOneTimer ==
    /\ [](\A f \in LocalPaths : Cardinality({t \in timers : t.localPath = f}) <= 1)
    /\ [][\A w \in watchers :
             (FileChange(w) /\ sftpTrackedFiles[w.localPath] # NoTrack) =>
                 \A t \in timers' : t.localPath = w.localPath => t.tid = nTimers']_vars
    /\ [][\A t \in timers :
             DebounceFire(t) => sftpTrackedFiles[t.localPath].debounceTimeout = t.tid]_vars

\* the number of `upload_status` messages with the given phase sent on channel c for
\* the file tracked by request r
Statuses(c, phase, r) == CopiesIn(Msg("upload_status", phase, r), sent[c])

\* C30: (auto-sync) on an open channel, every upload a debounce timer has started
\* was announced with `started` and has either one `complete` or `error` or is
\* still running; the callback of an upload sends `complete` or `error` for a file
\* for which `started` was sent before.
C30_UploadStatusEvents ==
    /\ [](\A c \in Channels, r \in 1..MaxMsgs :
             ws[c] = "open" =>
                 Statuses(c, "started", r) =
                     Statuses(c, "complete", r) + Statuses(c, "error", r)
                     + Cardinality({p \in pending : p.ws = c /\ p.tid # 0 /\ p.req = r}))
    /\ [][\A p \in pending, ok \in BOOLEAN :
             (FastPutDone(p, ok) /\ ws[p.ws] = "open") =>
                 /\ Statuses(p.ws, "started", p.req) >= 1
                 /\ Delivered(p.ws, Msg("upload_status",
                                        IF ok THEN "complete" ELSE "error", p.req))]_vars

C30_Witness ==
    \E c \in Channels, r \in 1..MaxMsgs :
        /\ ws[c] = "open"
        /\ Statuses(c, "started", r) = 2
        /\ Statuses(c, "complete", r) = 1
        /\ Statuses(c, "error", r) = 1

\* the messages about connection k sent on its channel
Told(k, type, payload) ==
    conns[k].st # "unused" /\ BagIn(Msg(type, payload, k), sent[conns[k].ws])
Failed(k)   == conns[k].st # "unused" /\ ErrorsAbout(k) >= 1
Unserved(k) == crashed \/ (conns[k].st # "unused" /\ ws[conns[k].ws] = "closed")

Numeric(v) ==
    \/ v.kind = "number"
    \/ v.kind = "string" /\ v.chars # <<>> /\ \A i \in 1..Len(v.chars) : IsDigit(v.chars[i])
NumberOf(v) == IF v.kind = "number" THEN v.value ELSE Decimal(v.chars)

\* C21: every connection is made to the port of the connect payload when that is
\* numeric, and to port 22 when it is absent or not numeric.
C21_PortFromPayload ==
    \A k \in Conns : conns[k].st # "unused" =>
        dialed[k].used = IF Numeric(dialed[k].given) THEN NumberOf(dialed[k].given)
                         ELSE DefaultPort
\* text `part` occurs in text `whole`
Includes(whole, part) ==
    \E i \in 1..(Len(whole) - Len(part) + 1) : SubSeq(whole, i, i + Len(part) - 1) = part
\* the step appends exactly one response, and it is m
Answered(m) == replies' = Append(replies, m)
LastReply == replies'[Len(replies')]
RepliesTo(r) == {i \in 1..Len(replies) : replies[i].req = r}

\* C24: a get_content request has at most one response: `file_content` with the whole
\* file (decoded as UTF-8) when the stream ends, an `error` when the read fails; a
\* failed read is never answered with `file_content`.
C24_ContentOrError ==
    /\ [](\A call \in calls : call.op = "get_content" =>
              /\ Cardinality(RepliesTo(call.req)) <= 1
              /\ ~call.done => RepliesTo(call.req) = {})
    /\ [][\A call \in calls :
             /\ ReadEnd(call) =>
                   /\ Len(replies') = Len(replies) + 1
                   /\ LastReply.type = "file_content" /\ LastReply.req = call.req
                   /\ LastReply.payload.content =
                          Utf8ToString(ContentOf(remoteFs, Resolve(call.args.path)))
             /\ ReadError(call) =>
                   /\ Len(replies') = Len(replies) + 1
                   /\ LastReply.type = "error" /\ LastReply.req = call.req
                   /\ \A cl \in calls' : cl.req = call.req => cl.done]_vars

\* a file was read in chunks and delivered whole ("h" and U+00E9), and a read that
\* failed was answered with an error
C24_Witness ==
    \E a, b \in calls :
        /\ a.op = "get_content" /\ b.op = "get_content" /\ a.done /\ b.done
        /\ \E i \in RepliesTo(a.req) :
              replies[i].type = "file_content" /\ replies[i].payload.content = <<104, 233>>
        /\ \E i \in RepliesTo(b.req) : replies[i].type = "error"

\* C25: the error message of a failed `list` includes the path that was requested.
C25_ListErrorNamesPath ==
    [][\A call \in calls :
          ReaddirDone(call, FALSE) =>
              Includes(LastReply.payload.message, call.args.path)]_vars

\* C26: a successful upload is answered with one `operation_success` whose message
\* contains fileName and whose dirToRefresh is remoteDir, and no other response; without
\* an encoding tag the file holds the base64 decoding of fileData.
C26_UploadSuccess ==
    /\ [](\A call \in calls : \A i \in RepliesTo(call.req) :
              (call.op = "upload" /\ replies[i].type = "operation_success") =>
                  /\ RepliesTo(call.req) = {i}
                  /\ Includes(replies[i].payload.message, call.args.fileName)
                  /\ replies[i].payload.dirToRefresh = call.args.remoteDir)
    /\ [][\A call \in calls :
             UploadDone(call, TRUE) =>
                 /\ Len(replies') = Len(replies) + 1
                 /\ LastReply.type = "operation_success" /\ LastReply.req = call.req
                 /\ call.args.encoding = Absent =>
                       ContentOf(remoteFs', Resolve(PosixJoin(call.args.remoteDir,
                                                              call.args.fileName)))
                           = Base64Bytes(Base64Body(call.args.fileData))]_vars

\* an upload of "aGk=" without an encoding tag was answered with a success, and the
\* file on the server holds the two bytes of "hi"
C26_Witness ==
    \E call \in calls :
        /\ call.op = "upload" /\ call.done /\ call.args.encoding = Absent
        /\ call.args.fileName = <<"x.txt">>
        /\ \E i \in RepliesTo(call.req) : replies[i].type = "operation_success"
        /\ File(Home \o <<"x.txt">>, <<104, 105>>) \in remoteFs

\* C27: once an upload of fileName into remoteDir was answered with
\* `operation_success`, the response to a `list` of remoteDir that is requested
\* afterwards holds an entry of that name and of type "file".
C27_UploadThenList ==
    \A up, ls \in calls : \A i \in RepliesTo(up.req), j \in RepliesTo(ls.req) :
        (/\ up.op = "upload" /\ replies[i].type = "operation_success"
         /\ ls.op = "list" /\ ls.after >= i /\ ls.args.path = up.args.remoteDir
         /\ replies[j].type = "list")
            => \E item \in replies[j].payload.items :
                   <<item.name>> = up.args.fileName /\ item.type = "file"

\* C28: a create_folder for a path that exists as a folder is answered with an
\* `error`; the process goes on, and the registry, the connections and the server's
\* files are as before.
C28_CreateExistingFolder ==
    [][\A call \in calls, ok \in BOOLEAN :
          (/\ MkdirDone(call, ok)
           /\ IsDir(remoteFs, Resolve(PosixJoin(call.args.parentDir, call.args.name))))
              => /\ Len(replies') = Len(replies) + 1
                 /\ LastReply.type = "error" /\ LastReply.req = call.req
                 /\ ~crashed'
                 /\ UNCHANGED <<sftpConnections, conns, remoteFs>>]_vars

\* a create_folder for "sub", which exists, was answered with an error and the SFTP
\* handle is still in the registry
C28_Witness ==
    \E call \in calls :
        /\ call.op = "create_folder" /\ call.done /\ call.args.name = <<"sub">>
        /\ \E i \in RepliesTo(call.req) : replies[i].type = "error"
        /\ sftpConnections[connectionId[call.ws]].sftp # 0
        /\ ~crashed
\* C31: the callback of a download_and_track request, on an open channel: when the
\* download succeeded the client gets one `download_complete`, one watcher is added,
\* on a local path no other request's watcher is on, and the path is tracked; when it
\* failed the client gets one `error` and watchers and tracked files are as before.
C31_WatchIffDownloaded ==
    [][\A p \in pending, ok \in BOOLEAN :
          (RequestDone(p, ok) /\ p.op = "download_and_track" /\ ws[p.ws] = "open") =>
              IF ok
                 THEN /\ Delivered(p.ws, Msg("download_complete", p.op, p.req))
                      /\ \E w \in watchers' \ watchers :
                            /\ watchers' = watchers \cup {w}
                            /\ w.req = p.req /\ w.localPath = p.localPath
                      /\ \A w \in watchers' : w.localPath = p.localPath => w.req = p.req
                      /\ sftpTrackedFiles'[p.localPath].watcher = p.req
                 ELSE /\ Delivered(p.ws, Msg("error", p.op, p.req))
                      /\ UNCHANGED <<watchers, sftpTrackedFiles, files>>]_vars

\* C32: when the client app handles `status: connected` on an open socket it sends
\* one `list`, for path "." (the gateway had sent that notice on a ready connection);
\* and when it handles the `list` response to that request, what it presents are the
\* entries of the listed directory, all folders before all files and each group in
\* alphabetical order.
FoldersFirst(arr) ==
    \A i, j \in DOMAIN arr : (i < j /\ arr[j].type = "folder") => arr[i].type = "folder"
Alphabetical(arr) ==
    \A i, j \in DOMAIN arr :
        (i < j /\ arr[i].type = arr[j].type) => LocaleCompare(arr[i].name, arr[j].name) < 0
Presents(arr, items) == {[name |-> arr[i].name, type |-> arr[i].type] : i \in DOMAIN arr} = items

C32_ConnectedThenSortedList ==
    /\ [][\A m \in BagToSet(sent[AppChannel]) :
             (OnMessage(m) /\ m.type = "status" /\ m.payload = "connected"
                 /\ readyState = "open") =>
                 /\ outlog' = Append(outlog, "list")
                 /\ RootList.path = <<".">>]_vars
    /\ [][(OnResponse /\ replies[nHandled + 1].type = "list") =>
             /\ Len(remoteItems') = Cardinality(replies[nHandled + 1].payload.items)
             /\ Presents(remoteItems', replies[nHandled + 1].payload.items)
             /\ FoldersFirst(remoteItems')
             /\ Alphabetical(remoteItems')]_vars

\* C33: every handler of the gateway that calls send on a client channel (the
\* `ready`, subsystem, `error` and `close` handlers of a connection and the callbacks
\* of SFTP calls) runs while that channel is open: no send is called on a channel
\* after its close event.
C33_NoSendAfterClose ==
    [][/\ \A k \in Conns :
             (ConnClose(k) \/ ConnError(k) \/ (ConnReady(k) /\ variant = "terminus")) =>
                 ws[conns[k].ws] = "open"
       /\ \A k \in Conns, ok \in BOOLEAN :
             (SubsystemOpened(k, ok) /\ ~crashed' /\ (~ok \/ variant # "terminus")) =>
                 ws[conns[k].ws] = "open"
       /\ \A p \in pending, ok \in BOOLEAN :
             RequestDone(p, ok) => ws[p.ws] = "open"]_vars

\* C34: whenever the callback of conn.sftp(...) / conn.shell(...) has its handle and
\* stores it, the registry holds an entry under the session's id; the callback never
\* dereferences a missing entry.
C34_EntryPresentAtStore ==
    [][\A k \in Conns :
          SubsystemOpened(k, TRUE) =>
              /\ sftpConnections[connectionId[conns[k].ws]] # NoEntry
              /\ ~crashed']_vars

\* C35: a registry entry that is removed is removed by the close of its channel, or
\* by the error or close handler of the connection the entry holds; an event of a
\* connection that a later `connect` on the channel has replaced never removes the
\* entry of the newer connection.
C35_RemovedByOwnConnection ==
    [][\A id \in Ids :
          (sftpConnections[id] # NoEntry /\ sftpConnections'[id] = NoEntry) =>
              \/ \E c \in Channels : connectionId[c] = id /\ WsClose(c)
              \/ \E k \in Conns :
                    /\ sftpConnections[id].ssh = k
                    /\ ConnError(k) \/ ConnClose(k)]_vars

\* C36: the interactive-shell gateway writes to the shell stream every `data` message
\* it receives once it has sent `status: connected` for the session's connection,
\* as long as that connection is ready, has not been ended and its shell has neither
\* failed nor closed; no input is dropped between the notice and the stream.
InSession(c) ==
    LET k == Bound(c).ssh
    IN  /\ ws[c] = "open"
        /\ k # 0
        /\ BagIn(Msg("status", "connected", k), sent[c])
        /\ conns[k].st = "ready" /\ ~conns[k].ended /\ ~conns[k].errored
        /\ conns[k].sub \in {"opening", "open"}

C36_InputAfterConnectedWritten ==
    [][\A c \in Channels, payload \in Payloads("data") :
          (variant = "terminus" /\ InSession(c) /\ Receive(c, "data", payload)) =>
              shellIn'[Bound(c).ssh] = Append(shellIn[Bound(c).ssh], payload)]_vars

\* C37: when an SFTP gateway sends `status: connected` on a channel, the registry
\* entry of the channel's session exists and holds the SFTP handle whose opening
\* the notice reports.
C37_ConnectedAfterHandleStored ==
    [][\A c \in Channels, k \in Conns :
          (variant # "terminus" /\ Delivered(c, Msg("status", "connected", k))) =>
              /\ sftpConnections'[connectionId[c]] # NoEntry
              /\ sftpConnections'[connectionId[c]].sftp = k]_vars

\* an SFTP gateway has told a client that it is connected
C37_Witness ==
    /\ variant # "terminus"
    /\ \E c \in Channels, k \in Conns :
          /\ BagIn(Msg("status", "connected", k), sent[c])
          /\ Bound(c).sftp = k

\* C38: of the uploads the debounce timers of one tracked file (one download) have
\* started, at most one is running at any time.
C38_OneUploadPerTrackedFile ==
    \A p, q \in pending :
        (p.tid # 0 /\ q.tid # 0 /\ p.req = q.req /\ p.localPath = q.localPath) => p = q

\* C39: once the client app's status is 'error' it stays 'error' until the user
\* starts a new connect; in particular the close handler of the socket the app has
\* closed because of the error leaves it 'error'.
C39_ErrorStatusKept ==
    [][status = "error" => (status' = "error" \/ HandleConnect)]_vars

\* C40: auto-sync `upload`: when the callback of the remote put has run, with or
\* without an error, the temporary file of the request is no longer on disk; and an
\* upload request has no response while it is running and exactly one when it is
\* done, an `operation_success` or an `error`.
C40_TempDeletedOneResponse ==
    /\ [][\A call \in calls, ok \in BOOLEAN :
             (variant = "autosync" /\ UploadDone(call, ok)) =>
                 call.tempFilePath \notin files']_vars
    /\ [](variant = "autosync" =>
             \A call \in calls : call.op = "upload" =>
                 IF call.done
                    THEN \E i \in RepliesTo(call.req) :
                            /\ RepliesTo(call.req) = {i}
                            /\ replies[i].type \in {"operation_success", "error"}
                    ELSE RepliesTo(call.req) = {})

\* one upload was put on the server and one failed in the transfer; both were
\* answered and no temporary file is left
C40_Witness ==
    /\ variant = "autosync"
    /\ files = {}
    /\ \E a, b \in calls :
          /\ a.op = "upload" /\ a.done /\ b.op = "upload" /\ b.done
          /\ \E i \in RepliesTo(a.req) : replies[i].type = "operation_success"
          /\ \E i \in RepliesTo(b.req) :
                /\ replies[i].type = "error"
                /\ replies[i].payload.message[1] = "Upload failed: "
====
